---------------------------- MODULE Spec2Model ----------------------------
(***************************************************************************)
(* PyRDP man-in-the-middle: the RDPDR passive file stealer                 *)
(* (pyrdp/mitm/virtual_channel/device_redirection.py) and the client side  *)
(* of the MITM (pyrdp/mitm/client.py).                                     *)
(*                                                                         *)
(* Python dictionaries are functions whose DOMAIN is the set of keys,      *)
(* byte strings and text are sequences of numbers (bytes, UTF-16 code      *)
(* units), an exception is the "raised" field of a handler's outcome.      *)
(***************************************************************************)
EXTENDS Integers, Sequences, FiniteSets, TLC

VARIABLES
    \* ---- PassiveFileStealer, one per side of the MITM ----
    completionIdInProgress, \* [side -> dict completionId -> request PDU]
    openedFiles,            \* [side -> dict fileId -> path bytes]
    finalFiles,             \* [side -> dict file name -> BytesIO content]
    pduToSend,              \* [side -> the PDU the current handler will forward]
    peer,                   \* [side -> the side of the stealer's peer, or "None"]
    disk,                   \* the file system: directories made and files written
    call,                   \* the last onPDUReceived call and its outcome
    pdusReceived,           \* how many PDUs the two stealers have received
    \* ---- the RDPDR endpoints during a file transfer ----
    transfer,               \* the real server's view of the file it is reading
    \* ---- MITMClient ----
    replacementUsername,    \* configured replacement username, or None
    replacementPassword,    \* configured replacement password, or None
    tcp,                    \* the client-side TCP layer: its state and whether TLS runs
    x224,                   \* the X.224 layer: "idle", "requested" or "connected"
    mcs,                    \* the MCS connection: "idle", "initialSent", "connected", "refused"
    useTLS,
    channelDefinitions,     \* channel definitions of the victim's GCC network data
    serverData,             \* the ServerData of the Connect Response, or None
    channelMap,             \* dict channelID -> channel name
    channelObservers,       \* dict channelID -> observer of the channel's stack
    securityLayer,          \* the I/O channel's security layer, or None
    securitySettings,       \* SecuritySettings(Mode.CLIENT) and what it told its observers
    channelStacks,          \* dict channelID -> the layers chained by buildChannel
    serverDisconnected,     \* whether self.server.disconnect() has been called
    segmentation,           \* the PDU types the segmentation layer has a layer attached for
    slowPathLayer,          \* the one SlowPathLayer of the client: its observers and the
                            \* channel whose security layer it was chained to last
    user,                   \* the MCS user created for the victim's attach request, or None
    \* ---- PlayerMessageObserver ----
    player,                 \* the hooks a subclass overrides and the last message dispatched
    out                     \* the last MITMClient handler run and what it did

stealerVars == <<completionIdInProgress, openedFiles, finalFiles, pduToSend, peer, disk, call>>

clientVars ==
    <<replacementUsername, replacementPassword, tcp, x224, mcs, useTLS, channelDefinitions,
      serverData, channelMap, channelObservers, securityLayer, securitySettings,
      channelStacks, serverDisconnected, segmentation, slowPathLayer, user, out>>

vars == <<stealerVars, pdusReceived, transfer, clientVars, player>>

-----------------------------------------------------------------------------
(* Bounds of the model *)

\* PDUs received by the two stealers in a run of arbitrary RDPDR traffic
MaxPDUs == 4
\* Times the real server confirms the join of the I/O channel
MaxIOBuilds == 2
\* Length of the victim's file, length of one Read, requests the real server
\* keeps outstanding and files it transfers one after the other
FileLen == 5
ChunkLen == 2
MaxOutstanding == 3
MaxTransfers == 2

-----------------------------------------------------------------------------
(* Generic helpers: dictionaries, bit operations, little-endian integers *)

None == [cls |-> "None"]

\* An optional string is << >> (None) or << s >>
NoString == << >>

EmptyDict == << >>

Put(d, k, v) == [x \in (DOMAIN d) \cup {k} |-> IF x = k THEN v ELSE d[x]]

Pop(d, k) == [x \in (DOMAIN d) \ {k} |-> d[x]]

Max(a, b) == IF a >= b THEN a ELSE b

RECURSIVE BitAnd(_, _)
BitAnd(a, b) ==
    IF a = 0 \/ b = 0 THEN 0
    ELSE (a % 2) * (b % 2) + 2 * BitAnd(a \div 2, b \div 2)

\* x & ~mask
AndNot(x, mask) == x - BitAnd(x, mask)

BitOr(a, b) == a + b - BitAnd(a, b)

Uint32LE(n) == << n % 256, (n \div 256) % 256, (n \div 65536) % 256, (n \div 16777216) % 256 >>

UnpackUint32LE(b) == b[1] + 256 * b[2] + 65536 * b[3] + 16777216 * b[4]

-----------------------------------------------------------------------------
(* PlayerMessageObserver: a routed observer of the player message layer *)

\* A routing table in which output messages go to the input hook
handlers_OutputToInputHook ==
    [messageType \in { "CONNECTION_CLOSE", "CLIENT_INFO", "SLOW_PATH_PDU", "FAST_PATH_INPUT",
                       "FAST_PATH_OUTPUT", "CLIPBOARD_DATA", "CLIENT_DATA" } |->
        CASE messageType = "CONNECTION_CLOSE" -> "onConnectionClose"
          [] messageType = "CLIENT_INFO" -> "onClientInfo"
          [] messageType = "SLOW_PATH_PDU" -> "onSlowPathPDU"
          [] messageType = "FAST_PATH_INPUT" -> "onInput"
          [] messageType = "FAST_PATH_OUTPUT" -> "onInput"
          [] messageType = "CLIPBOARD_DATA" -> "onClipboardData"
          [] messageType = "CLIENT_DATA" -> "onClientData"]

\* The table PlayerMessageObserver.__init__ gives to LayerRoutedObserver
handlers ==
    [messageType \in { "CONNECTION_CLOSE", "CLIENT_INFO", "SLOW_PATH_PDU", "FAST_PATH_INPUT",
                       "FAST_PATH_OUTPUT", "CLIPBOARD_DATA", "CLIENT_DATA" } |->
        CASE messageType = "CONNECTION_CLOSE" -> "onConnectionClose"
          [] messageType = "CLIENT_INFO" -> "onClientInfo"
          [] messageType = "SLOW_PATH_PDU" -> "onSlowPathPDU"
          [] messageType = "FAST_PATH_INPUT" -> "onInput"
          [] messageType = "FAST_PATH_OUTPUT" -> "onOutput"
          [] messageType = "CLIPBOARD_DATA" -> "onClipboardData"
          [] messageType = "CLIENT_DATA" -> "onClientData"]

\* The hooks PlayerMessageObserver defines; each raises NotImplementedError
Hooks ==
    { "onConnectionClose", "onClientInfo", "onSlowPathPDU", "onInput", "onOutput",
      "onClipboardData", "onClientData" }

\* Message types on the wire: the seven of the table and two it does not hold
MessageTypes == DOMAIN handlers \cup { "MOUSE_MOVE", "0xFF" }

\* An observer whose subclass overrides these hooks, before any message
PlayerObserver(overridden) == [overridden |-> overridden, last |-> None]

\* LayerRoutedObserver.onPDUReceived: the hook of the header, or onUnknownHeader
routePDU(observer, header) ==
    IF header \in DOMAIN handlers
    THEN [header |-> header, invoked |-> << handlers[header] >>, unknown |-> 0,
          raised |-> IF handlers[header] \in observer.overridden
                     THEN "none" ELSE "NotImplementedError"]
    ELSE [header |-> header, invoked |-> << >>, unknown |-> 1, raised |-> "none"]

-----------------------------------------------------------------------------
(* Protocol constants (pyrdp.enum).  A 32-bit mask that may use bit 31 is  *)
(* the set of the numbers of its set bits: 0x80000000 is {31}, 0x41 is     *)
(* {0, 6}; a & b is the intersection, a | b the union.                     *)

GENERIC_READ == { 31 }
FILE_READ_DATA == { 0 }
FILE_WRITE_DATA == { 1 }
FILE_NON_DIRECTORY_FILE == { 6 }
FILE_DIRECTORY_FILE == { 0 }
STATUS_SUCCESS == { }
\* 0xC0000001
STATUS_UNSUCCESSFUL == { 31, 30, 0 }
STATUS_SEVERITY_ERROR == 3
IRP_MJ_WRITE == 4
FILE_OPENED == 1

\* mask >> 30 of a 32-bit mask
ShiftRight30(mask) == (IF 31 \in mask THEN 2 ELSE 0) + (IF 30 \in mask THEN 1 ELSE 0)

-----------------------------------------------------------------------------
(* Paths: UTF-16LE bytes on the wire, text in the stealer, a path on disk *)

Backslash == 92
Slash == 47
Dot == 46

\* "\a" and "\a" followed by a NUL terminator, as UTF-16LE bytes
PathA == << 92, 0, 97, 0 >>
PathANul == << 92, 0, 97, 0, 0, 0 >>
\* "a\b", whose directory has the name of the file of "\a"
PathAB == << 97, 0, 92, 0, 98, 0 >>

Paths == { PathA, PathANul, PathAB }

\* "./saved_files/"
SavedFiles == << 46, 47, 115, 97, 118, 101, 100, 95, 102, 105, 108, 101, 115, 47 >>

\* The k-th smallest element of a set of numbers
Kth(S, k) == CHOOSE i \in S : Cardinality({ j \in S : j <= i }) = k

\* UTF-16 surrogates: a high one followed by a low one is one character
IsHigh(unit) == unit >= 55296 /\ unit <= 56319
IsLow(unit) == unit >= 56320 /\ unit <= 57343

\* Where the characters of a sequence of UTF-16 code units begin: at every unit
\* but the low half of a pair
Characters(u) == { i \in 1..Len(u) : ~(i > 1 /\ IsHigh(u[i - 1]) /\ IsLow(u[i])) }

\* The character that begins at the i-th unit
codePointAt(u, i) ==
    IF i < Len(u) /\ IsHigh(u[i]) /\ IsLow(u[i + 1])
    THEN 65536 + (u[i] - 55296) * 1024 + (u[i + 1] - 56320)
    ELSE u[i]

\* The characters of a sequence of UTF-16 code units
codePoints(u) ==
    [k \in 1..Cardinality(Characters(u)) |-> codePointAt(u, Kth(Characters(u), k))]

\* A str is the sequence of its code points: two bytes a code unit, low byte first
decodeUTF16LE(b) ==
    codePoints([i \in 1..(Len(b) \div 2) |-> b[2 * i - 1] + 256 * b[2 * i]])

RECURSIVE StripLeft(_, _)
StripLeft(s, c) == IF s # << >> /\ Head(s) = c THEN StripLeft(Tail(s), c) ELSE s

RECURSIVE StripRight(_, _)
StripRight(s, c) ==
    IF s # << >> /\ s[Len(s)] = c THEN StripRight(SubSeq(s, 1, Len(s) - 1), c) ELSE s

\* str.strip(c)
Strip(s, c) == StripRight(StripLeft(s, c), c)

bytesToPath(pathAsBytes) == Strip(decodeUTF16LE(pathAsBytes), 0)

\* str.replace(a, b) for one character
ReplaceChar(s, a, b) == [i \in 1..Len(s) |-> IF s[i] = a THEN b ELSE s[i]]


\* Where ".." occurs in a string
DotDots(s) == { i \in 1..(Len(s) - 1) : s[i] = Dot /\ s[i + 1] = Dot }

\* str.replace("..", ""): leftmost non-overlapping occurrences
RECURSIVE RemoveDotDot(_)
RemoveDotDot(s) ==
    IF DotDots(s) = { } THEN s
    ELSE SubSeq(s, 1, Kth(DotDots(s), 1) - 1)
            \o RemoveDotDot(SubSeq(s, Kth(DotDots(s), 1) + 2, Len(s)))

goodPath(path) == SavedFiles \o RemoveDotDot(ReplaceChar(path, Backslash, Slash))

\* The file system under the working directory: the directories that exist and
\* the content of the files, each named by its path without "//" and "/./" as
\* the system gives the name back (os.fsdecode of the bytes on disk)
EmptyDisk == [files |-> << >>, dirs |-> { }]

\* surrogateescape: U+DC80..U+DCFF stands for one byte, 0x80..0xFF
IsEscape(c) == c >= 56448 /\ c <= 56575

\* What turning a str path into the bytes of a system call raises: a surrogate
\* code point, U+D800..U+DFFF, has no UTF-8 encoding unless it escapes a byte,
\* and a NUL cannot be in a path
fspath(p) ==
    IF \E i \in 1..Len(p) : p[i] >= 55296 /\ p[i] <= 57343 /\ ~IsEscape(p[i])
    THEN "UnicodeEncodeError"
    ELSE IF \E i \in 1..Len(p) : p[i] = 0 THEN "ValueError"
    ELSE "none"

\* The bytes that the characters of a name escape, 0 where one escapes none
\* and past the end of the name
EscapedBytes(s) ==
    [i \in 1..(Len(s) + 3) |-> IF i <= Len(s) /\ IsEscape(s[i]) THEN s[i] - 56320 ELSE 0]

Continuation(byte) == byte >= 128 /\ byte <= 191

\* The length of the well-formed UTF-8 sequence that the escaped bytes b begin
\* with from the i-th on, 0 when they begin with none
utf8Len(b, i) ==
    IF b[i] >= 194 /\ b[i] <= 223 /\ Continuation(b[i + 1])
    THEN 2
    ELSE IF /\ b[i] >= 224 /\ b[i] <= 239
            /\ Continuation(b[i + 1]) /\ Continuation(b[i + 2])
            /\ b[i] = 224 => b[i + 1] >= 160
            /\ b[i] = 237 => b[i + 1] <= 159
    THEN 3
    ELSE IF /\ b[i] >= 240 /\ b[i] <= 244
            /\ Continuation(b[i + 1]) /\ Continuation(b[i + 2]) /\ Continuation(b[i + 3])
            /\ b[i] = 240 => b[i + 1] >= 144
            /\ b[i] = 244 => b[i + 1] <= 143
    THEN 4
    ELSE 0

\* The character that a sequence of that length encodes
utf8Decode(b, i, length) ==
    CASE length = 2 -> (b[i] - 192) * 64 + (b[i + 1] - 128)
      [] length = 3 -> (b[i] - 224) * 4096 + (b[i + 1] - 128) * 64 + (b[i + 2] - 128)
      [] OTHER -> (b[i] - 240) * 262144 + (b[i + 1] - 128) * 4096
                     + (b[i + 2] - 128) * 64 + (b[i + 3] - 128)

\* What the i-th character of a name is on disk: escaped bytes that make a
\* UTF-8 sequence are the character they encode
decodedAt(s, lengths, i) ==
    IF lengths[i] > 0 THEN << utf8Decode(EscapedBytes(s), i, lengths[i]) >>
    ELSE IF \E j \in 1..(i - 1) : j >= i - 3 /\ lengths[j] > i - j THEN << >>
    ELSE << s[i] >>

RECURSIVE decoded(_, _, _, _)
decoded(s, lengths, first, last) ==
    IF first > last THEN << >>
    ELSE IF first = last THEN decodedAt(s, lengths, first)
    ELSE decoded(s, lengths, first, (first + last) \div 2)
            \o decoded(s, lengths, (first + last) \div 2 + 1, last)

\* os.fsdecode(os.fsencode(name)): the name under which the file system holds
\* the bytes of a path
fsdecode(name) ==
    IF \A i \in 1..Len(name) : ~IsEscape(name[i]) THEN name
    ELSE decoded(name, [i \in 1..Len(name) |-> utf8Len(EscapedBytes(name), i)],
                 1, Len(name))

\* The longest file name and the longest path the system takes, in bytes
NAME_MAX == 255
PATH_MAX == 4096

\* The bytes os.fsencode makes of a name: UTF-8, one to four bytes for a
\* character and one for an escaped byte
fsencodeLen(name) ==
    Len(name) + Cardinality({ i \in 1..Len(name) : name[i] >= 128 })
              + Cardinality({ i \in 1..Len(name) : name[i] >= 2048 })
              + Cardinality({ i \in 1..Len(name) : name[i] >= 65536 })
              - 2 * Cardinality({ i \in 1..Len(name) : IsEscape(name[i]) })

TooLong(p) == fsencodeLen(p) >= PATH_MAX

Slashes(s) == { i \in 1..Len(s) : s[i] = Slash }

\* str.rfind("/"), counted from 1: 0 when there is none
LastSlash(s) == IF Slashes(s) = { } THEN 0 ELSE Kth(Slashes(s), Cardinality(Slashes(s)))

RECURSIVE rstrip(_)
rstrip(s) == IF s # << >> /\ s[Len(s)] = Slash THEN rstrip(SubSeq(s, 1, Len(s) - 1)) ELSE s

\* os.path.dirname and os.path.basename
dirname(p) ==
    IF \A i \in 1..LastSlash(p) : p[i] = Slash THEN SubSeq(p, 1, LastSlash(p))
    ELSE rstrip(SubSeq(p, 1, LastSlash(p)))
basename(p) == SubSeq(p, LastSlash(p) + 1, Len(p))

IsName(component) == component # << >> /\ component # << Dot >>

RECURSIVE Join(_)
Join(components) ==
    IF components = << >> THEN << Dot >>
    ELSE Join(SubSeq(components, 1, Len(components) - 1))
            \o << Slash >> \o components[Len(components)]

\* Where the components of a path begin and end; "//" holds none
Starts(p) == { i \in 1..Len(p) : p[i] # Slash /\ (i = 1 \/ p[i - 1] = Slash) }
Ends(p) == { i \in 1..Len(p) : p[i] # Slash /\ (i = Len(p) \/ p[i + 1] = Slash) }

\* The steps a path takes, the components in order of the name that the system
\* holds for it: "." is a step that stays where it is and still needs a
\* directory to stay in
\* The components of a name, in order
Cut(name) ==
    [k \in 1..Cardinality(Starts(name)) |->
        SubSeq(name, Kth(Starts(name), k), Kth(Ends(name), k))]

\* The steps a path takes, the components of the name that the system holds for
\* it: "." is a step that stays where it is and still needs a directory to stay in
Steps(p) == Cut(fsdecode(p))

\* The names among the steps: "." names the directory it is in
Names(steps) == SelectSeq(steps, IsName)

\* One step of the kernel's path walk from what the steps before it reached
walk(fs, reached, component, name) ==
    IF reached \in { "missing", "notdir", "toolong" } THEN reached
    ELSE IF reached = "file" THEN "notdir"
    ELSE IF component = << Dot >> THEN "dir"
    ELSE IF fsencodeLen(component) > NAME_MAX THEN "toolong"
    ELSE IF name \in DOMAIN fs.files THEN "file"
    ELSE IF name \in fs.dirs THEN "dir"
    ELSE "missing"

\* What the first k steps of a path reach: a directory, a file, nothing, or an
\* error on the way
RECURSIVE lookup(_, _, _)
lookup(fs, steps, k) ==
    IF k <= 0 THEN "dir"
    ELSE walk(fs, lookup(fs, steps, k - 1), steps[k], Join(Names(SubSeq(steps, 1, k))))

EndsInSlash(p) == p # << >> /\ p[Len(p)] = Slash

\* os.path.exists: any error of the stat call is False
exists(fs, p) ==
    /\ p # << >>
    /\ fspath(p) = "none"
    /\ ~TooLong(p)
    /\ \E steps \in { Steps(p) } :
          lookup(fs, steps, Len(steps)) \in
             (IF EndsInSlash(p) THEN { "dir" } ELSE { "dir", "file" })

\* The mkdir system call and the except clause around it in os.makedirs: with
\* exist_ok a directory that exists is no error, anything else is
mkdirAt(made, parent, steps, name) ==
    IF steps = << >> THEN made
    ELSE IF parent \in { "file", "notdir" }
    THEN [made EXCEPT !.raised = "NotADirectoryError"]
    ELSE IF parent = "missing" THEN [made EXCEPT !.raised = "FileNotFoundError"]
    ELSE IF parent = "toolong" THEN [made EXCEPT !.raised = "OSError"]
    ELSE IF steps[Len(steps)] = << Dot >> THEN made
    ELSE IF fsencodeLen(steps[Len(steps)]) > NAME_MAX THEN [made EXCEPT !.raised = "OSError"]
    ELSE IF name \in DOMAIN made.fs.files THEN [made EXCEPT !.raised = "FileExistsError"]
    ELSE [made EXCEPT !.fs.dirs = @ \cup { name }]

\* The system call on the steps of a path
mkdirSteps(made, steps) ==
    mkdirAt(made, lookup(made.fs, steps, Len(steps) - 1), steps, Join(Names(steps)))

\* os.mkdir(name)
mkdir(made, name) ==
    IF fspath(name) # "none" THEN [made EXCEPT !.raised = fspath(name)]
    ELSE IF name = << >> THEN [made EXCEPT !.raised = "FileNotFoundError"]
    ELSE IF TooLong(name) THEN [made EXCEPT !.raised = "OSError"]
    ELSE mkdirSteps(made, Steps(name))

\* os.makedirs after the call on its head: a FileExistsError of the head is
\* passed over, a tail of "." is done with the head
afterHead(head, name, tail) ==
    IF head.raised \notin { "none", "FileExistsError" } THEN head
    ELSE IF tail = << Dot >> THEN [head EXCEPT !.raised = "none"]
    ELSE mkdir([head EXCEPT !.raised = "none"], name)

\* os.makedirs(name, exist_ok=True), name split in head and tail
RECURSIVE makedirs(_, _)
makedirsOf(fs, name, head, tail) ==
    IF head # << >> /\ tail # << >> /\ ~exists(fs, head)
    THEN afterHead(makedirs(fs, head), name, tail)
    ELSE mkdir([fs |-> fs, raised |-> "none"], name)

makedirs(fs, name) ==
    makedirsOf(fs, name,
               dirname(IF basename(name) = << >> THEN dirname(name) ELSE name),
               basename(IF basename(name) = << >> THEN dirname(name) ELSE name))

\* The open system call for writing, from what the path's parent and the path
\* reach, and the write
openAt(fs, parent, target, endsInSlash, name, stream) ==
    IF parent \in { "file", "notdir" } THEN [fs |-> fs, raised |-> "NotADirectoryError"]
    ELSE IF parent = "missing" THEN [fs |-> fs, raised |-> "FileNotFoundError"]
    ELSE IF parent = "toolong" THEN [fs |-> fs, raised |-> "OSError"]
    ELSE IF endsInSlash THEN [fs |-> fs, raised |-> "IsADirectoryError"]
    ELSE IF target = "toolong" THEN [fs |-> fs, raised |-> "OSError"]
    ELSE IF target = "dir" THEN [fs |-> fs, raised |-> "IsADirectoryError"]
    ELSE [fs |-> [fs EXCEPT !.files = Put(@, name, stream)], raised |-> "none"]

\* The system call on the steps of a path
openSteps(fs, steps, endsInSlash, stream) ==
    openAt(fs, lookup(fs, steps, Len(steps) - 1), lookup(fs, steps, Len(steps)),
           endsInSlash, Join(Names(steps)), stream)

\* open(name, "wb") and file.write(stream.getvalue())
openFile(fs, name, stream) ==
    IF fspath(name) # "none" THEN [fs |-> fs, raised |-> fspath(name)]
    ELSE IF name = << >> THEN [fs |-> fs, raised |-> "FileNotFoundError"]
    ELSE IF TooLong(name) THEN [fs |-> fs, raised |-> "OSError"]
    ELSE openSteps(fs, Steps(name), EndsInSlash(name), stream)

logged(opened) ==
    [fs |-> opened.fs, raised |-> opened.raised, log |-> << "info: Writing to disk" >>]

\* The info line and the open, which a failed makedirs does not reach
open(made, goodPathOf, stream) ==
    IF made.raised # "none"
    THEN [fs |-> made.fs, raised |-> made.raised, log |-> << >>]
    ELSE logged(openFile(made.fs, goodPathOf, stream))

\* A write that ignores the seek and appends at the end of the stream
SeekWrite_Appends(stream, offset, data) == stream \o data

\* BytesIO: seek(offset) then write(data); a write of no bytes changes nothing,
\* a write past the end pads the gap with zero bytes.
SeekWrite(stream, offset, data) ==
    IF data = << >> THEN stream
    ELSE [i \in 1..Max(Len(stream), offset + Len(data)) |->
            IF i > offset /\ i <= offset + Len(data) THEN data[i - offset]
            ELSE IF i <= Len(stream) THEN stream[i]
            ELSE 0]

-----------------------------------------------------------------------------
(* RDPDR PDUs *)

Sides == { "client", "server" }

NoPeer == "None"

\* self.peer
Peer(self) == peer[self]

CompletionIds == { 1, 2 }
FileIds == { 1, 2 }
Offsets == { 0, 1 }
ReadDatas == { << 7 >>, << 8, 9 >> }
DesiredAccesses == { GENERIC_READ, FILE_READ_DATA, FILE_WRITE_DATA }
CreateOptionses == { FILE_NON_DIRECTORY_FILE, FILE_DIRECTORY_FILE }
IoStatuses == { STATUS_SUCCESS, STATUS_UNSUCCESSFUL }

ReadRequest(completionId, fileId, offset, length) ==
    [cls |-> "DeviceReadRequestPDU", completionId |-> completionId, fileId |-> fileId,
     offset |-> offset, length |-> length]

CreateRequest(completionId, desiredAccess, createOptions, path) ==
    [cls |-> "DeviceCreateRequestPDU", completionId |-> completionId,
     desiredAccess |-> desiredAccess, createOptions |-> createOptions, path |-> path]

CloseRequest(completionId, fileId) ==
    [cls |-> "DeviceCloseRequestPDU", completionId |-> completionId, fileId |-> fileId]

\* (desiredAccess, createOptions, path) of the Create requests of arbitrary traffic
CreateKinds ==
    { << GENERIC_READ, FILE_NON_DIRECTORY_FILE, PathA >>,
      << FILE_READ_DATA, FILE_NON_DIRECTORY_FILE, PathANul >>,
      << FILE_WRITE_DATA, FILE_NON_DIRECTORY_FILE, PathA >>,
      << GENERIC_READ, FILE_DIRECTORY_FILE, PathA >> }

ReadRequests == { ReadRequest(c, 1, o, ChunkLen) : c \in CompletionIds, o \in Offsets }

CreateRequests == { CreateRequest(c, k[1], k[2], k[3]) : c \in CompletionIds, k \in CreateKinds }

CloseRequests == { CloseRequest(c, 1) : c \in CompletionIds }

\* any other I/O request (a write)
OtherRequests ==
    [cls : {"DeviceIORequestPDU"}, completionId : CompletionIds, majorFunction : {IRP_MJ_WRITE}]

IORequests == ReadRequests \cup CreateRequests \cup CloseRequests \cup OtherRequests

IsIORequest(pdu) ==
    pdu.cls \in { "DeviceReadRequestPDU", "DeviceCreateRequestPDU", "DeviceCloseRequestPDU",
                  "DeviceIORequestPDU" }

\* payload of a Create response: fileId (u32 LE), information (u8)
CreatePayload(fileId, information) == Uint32LE(fileId) \o << information >>

\* payload of a Read response: length (u32 LE), data
ReadPayload(data) == Uint32LE(Len(data)) \o data

CreatePayloads == { CreatePayload(f, FILE_OPENED) : f \in FileIds }
ReadPayloads == { ReadPayload(d) : d \in ReadDatas }

IOResponse(completionId, ioStatus, payload) ==
    [cls |-> "DeviceIOResponsePDU", completionId |-> completionId, ioStatus |-> ioStatus,
     payload |-> payload]

\* PDUs that are neither I/O requests nor I/O responses
OtherPDUs ==
    { [cls |-> "DeviceListAnnounceRequest", deviceList |-> << >>],
      [cls |-> "DeviceListAnnounceRequest",
       deviceList |-> << "RDPDR_DTYP_FILESYSTEM", "RDPDR_DTYP_PRINT" >>],
      [cls |-> "DeviceRedirectionServerCapabilitiesPDU"],
      [cls |-> "DeviceRedirectionClientCapabilitiesPDU"],
      [cls |-> "DeviceRedirectionPDU"] }

parseDeviceCreateResponse(pdu) ==
    [cls |-> "DeviceCreateResponsePDU", completionId |-> pdu.completionId,
     ioStatus |-> pdu.ioStatus, fileId |-> UnpackUint32LE(pdu.payload),
     information |-> pdu.payload[5]]

parseReadResponse(pdu) ==
    [cls |-> "DeviceReadResponsePDU", completionId |-> pdu.completionId,
     ioStatus |-> pdu.ioStatus,
     readData |-> SubSeq(pdu.payload, 5, 4 + UnpackUint32LE(pdu.payload))]

\* The bytes a response PDU stands for, whether parsed or not
ResponseContent(pdu) ==
    CASE pdu.cls = "DeviceIOResponsePDU" ->
            << pdu.completionId, pdu.ioStatus, pdu.payload >>
      [] pdu.cls = "DeviceCreateResponsePDU" ->
            << pdu.completionId, pdu.ioStatus, CreatePayload(pdu.fileId, pdu.information) >>
      [] pdu.cls = "DeviceReadResponsePDU" ->
            << pdu.completionId, pdu.ioStatus, ReadPayload(pdu.readData) >>
      [] OTHER -> pdu

-----------------------------------------------------------------------------
(* PassiveFileStealer handlers.  Each gives the outcome of the handler run   *)
(* in the current state: the tables after it, the PDU left in pduToSend,     *)
(* the exception raised (if any) and what it logged.                        *)

Outcome(pdu) ==
    [cip |-> completionIdInProgress, opened |-> openedFiles, final |-> finalFiles,
     dsk |-> disk, toSend |-> pdu, raised |-> "none", log |-> << >>]

HasReadIntent(requestPDU) ==
    requestPDU.desiredAccess \cap (GENERIC_READ \cup FILE_READ_DATA) # { }

handleIORequest(self, pdu) ==
    LET stored == [Outcome(pdu) EXCEPT
                     !.cip = [@ EXCEPT ![Peer(self)] = Put(@, pdu.completionId, pdu)]]
    IN  CASE Peer(self) = NoPeer -> [Outcome(pdu) EXCEPT !.raised = "AttributeError"]
          [] pdu.cls = "DeviceReadRequestPDU" ->
                IF pdu.fileId \in DOMAIN openedFiles[Peer(self)]
                THEN [stored EXCEPT !.log = << "debug: ReadRequest received" >>]
                ELSE [stored EXCEPT !.raised = "KeyError"]
          [] pdu.cls = "DeviceCreateRequestPDU" ->
                IF HasReadIntent(pdu)
                THEN [stored EXCEPT !.log = << "debug: Create request for read" >>]
                ELSE stored
          [] OTHER -> [stored EXCEPT !.log = << "debug: Unparsed request" >>]

handleReadResponse(self, pdu, requestPDU) ==
    LET readDataResponsePDU == parseReadResponse(pdu)
        parsed == [Outcome(pdu) EXCEPT !.toSend = readDataResponsePDU]
    IN  IF requestPDU.fileId \notin DOMAIN openedFiles[self]
        THEN [parsed EXCEPT !.raised = "KeyError"]
        ELSE LET fileName == bytesToPath(openedFiles[self][requestPDU.fileId])
                 stream == IF fileName \in DOMAIN finalFiles[self]
                           THEN finalFiles[self][fileName] ELSE << >>
                 written == SeekWrite(stream, requestPDU.offset, readDataResponsePDU.readData)
             IN  [parsed EXCEPT !.final = [@ EXCEPT ![self] = Put(@, fileName, written)]]

\* A Create response that records the file in the peer's openedFiles
handleCreateResponse_OpensOnPeer(self, pdu, requestPDU) ==
    LET createResponse == parseDeviceCreateResponse(pdu)
        parsed == [Outcome(pdu) EXCEPT !.toSend = createResponse]
    IN  IF HasReadIntent(requestPDU)
           /\ requestPDU.createOptions \cap FILE_NON_DIRECTORY_FILE # { }
        THEN [parsed EXCEPT
                !.opened = [@ EXCEPT ![Peer(self)] =
                                Put(@, createResponse.fileId, requestPDU.path)],
                !.log = << "debug: Opening file" >>]
        ELSE parsed

\* A Create response that opens the file whatever the createOptions
handleCreateResponse_IgnoresOptions(self, pdu, requestPDU) ==
    LET createResponse == parseDeviceCreateResponse(pdu)
        parsed == [Outcome(pdu) EXCEPT !.toSend = createResponse]
    IN  IF HasReadIntent(requestPDU)
        THEN [parsed EXCEPT
                !.opened = [@ EXCEPT ![self] = Put(@, createResponse.fileId, requestPDU.path)],
                !.log = << "debug: Opening file" >>]
        ELSE parsed

handleCreateResponse(self, pdu, requestPDU) ==
    LET createResponse == parseDeviceCreateResponse(pdu)
        parsed == [Outcome(pdu) EXCEPT !.toSend = createResponse]
    IN  IF HasReadIntent(requestPDU)
           /\ requestPDU.createOptions \cap FILE_NON_DIRECTORY_FILE # { }
        THEN [parsed EXCEPT
                !.opened = [@ EXCEPT ![self] = Put(@, createResponse.fileId, requestPDU.path)],
                !.log = << "debug: Opening file" >>]
        ELSE parsed

\* What writeToDisk leaves on the file system, the exception it raises and
\* what it logs: makedirs, the info line, then open and write
writeToDisk(fs, path, stream) ==
    open(makedirs(fs, dirname(goodPath(path))), goodPath(path), stream)

\* The end of handleCloseResponse: the flush, and the pop that a failed flush
\* does not reach
flush(closing, written, popped) ==
    IF written.raised # "none"
    THEN [closing EXCEPT !.dsk = written.fs, !.log = @ \o written.log,
                         !.raised = written.raised]
    ELSE [closing EXCEPT !.dsk = written.fs, !.log = @ \o written.log, !.opened = popped]

handleCloseResponse(self, pdu, requestPDU) ==
    IF requestPDU.fileId \in DOMAIN openedFiles[self]
    THEN LET path == bytesToPath(openedFiles[self][requestPDU.fileId])
             closing == [Outcome(pdu) EXCEPT !.log = << "debug: Closing file" >>]
             popped == [openedFiles EXCEPT ![self] = Pop(@, requestPDU.fileId)]
         IN  IF path \in DOMAIN finalFiles[self]
             THEN flush(closing, writeToDisk(disk, path, finalFiles[self][path]), popped)
             ELSE [closing EXCEPT !.opened = popped]
    ELSE Outcome(pdu)

\* Looks the request up without testing that the completionId is in progress
handleIOResponse_NoMembershipCheck(self, pdu) ==
    IF pdu.completionId \in DOMAIN completionIdInProgress[self]
    THEN LET requestPDU == completionIdInProgress[self][pdu.completionId]
             warning == IF ShiftRight30(pdu.ioStatus) = STATUS_SEVERITY_ERROR
                        THEN << "warning: error IO status" >> ELSE << >>
             handled ==
                CASE requestPDU.cls = "DeviceReadRequestPDU" ->
                        LET r == handleReadResponse(self, pdu, requestPDU)
                        IN  [r EXCEPT !.log = << "debug: Read response received" >> \o @]
                  [] requestPDU.cls = "DeviceCreateRequestPDU" ->
                        handleCreateResponse(self, pdu, requestPDU)
                  [] requestPDU.cls = "DeviceCloseRequestPDU" ->
                        handleCloseResponse(self, pdu, requestPDU)
                  [] OTHER -> [Outcome(pdu) EXCEPT !.log = << "debug: Unknown response" >>]
         IN  IF handled.raised = "none"
             THEN [handled EXCEPT
                     !.cip = [@ EXCEPT ![self] = Pop(@, pdu.completionId)],
                     !.log = warning \o @]
             ELSE [handled EXCEPT !.log = warning \o @]
    ELSE [Outcome(pdu) EXCEPT !.raised = "KeyError"]

handleIOResponse(self, pdu) ==
    IF pdu.completionId \in DOMAIN completionIdInProgress[self]
    THEN LET requestPDU == completionIdInProgress[self][pdu.completionId]
             warning == IF ShiftRight30(pdu.ioStatus) = STATUS_SEVERITY_ERROR
                        THEN << "warning: error IO status" >> ELSE << >>
             handled ==
                CASE requestPDU.cls = "DeviceReadRequestPDU" ->
                        LET r == handleReadResponse(self, pdu, requestPDU)
                        IN  [r EXCEPT !.log = << "debug: Read response received" >> \o @]
                  [] requestPDU.cls = "DeviceCreateRequestPDU" ->
                        handleCreateResponse(self, pdu, requestPDU)
                  [] requestPDU.cls = "DeviceCloseRequestPDU" ->
                        handleCloseResponse(self, pdu, requestPDU)
                  [] OTHER -> [Outcome(pdu) EXCEPT !.log = << "debug: Unknown response" >>]
         IN  IF handled.raised = "none"
             THEN [handled EXCEPT
                     !.cip = [@ EXCEPT ![self] = Pop(@, pdu.completionId)],
                     !.log = warning \o @]
             ELSE [handled EXCEPT !.log = warning \o @]
    ELSE [Outcome(pdu) EXCEPT !.log = << "error: completion id not in progress" >>]

\* The handler chosen by onPDUReceived, before the forward
dispatch(self, pdu) ==
    CASE IsIORequest(pdu) -> handleIORequest(self, pdu)
      [] pdu.cls = "DeviceIOResponsePDU" -> handleIOResponse(self, pdu)
      [] pdu.cls = "DeviceListAnnounceRequest" ->
            [Outcome(pdu) EXCEPT
               !.log = [i \in 1..Len(pdu.deviceList) |-> "info: device mapped"]]
      [] pdu.cls = "DeviceRedirectionServerCapabilitiesPDU" ->
            [Outcome(pdu) EXCEPT !.log = << "debug: Received Server capabilities" >>]
      [] pdu.cls = "DeviceRedirectionClientCapabilitiesPDU" ->
            [Outcome(pdu) EXCEPT !.log = << "debug: Received Client capabilities" >>]
      [] OTHER -> [Outcome(pdu) EXCEPT !.log = << "debug: Received unparsed PDU" >>]

\* self.peer.sendPDU(self.pduToSend): not reached when the handler raised, and
\* raises itself when the stealer has no peer
forwarded(self, outcome) ==
    IF outcome.raised = "none" /\ Peer(self) # NoPeer THEN << outcome.toSend >> ELSE << >>

\* The exception that ends onPDUReceived, if any
raisedBy(self, outcome) ==
    IF outcome.raised = "none" /\ Peer(self) = NoPeer THEN "AttributeError"
    ELSE outcome.raised

onPDUReceived(self, pdu) ==
    LET outcome == dispatch(self, pdu)
    IN  /\ completionIdInProgress' = outcome.cip
        /\ openedFiles' = outcome.opened
        /\ finalFiles' = outcome.final
        /\ disk' = outcome.dsk
        /\ pduToSend' = [pduToSend EXCEPT ![self] = outcome.toSend]
        /\ call' = [self |-> self, peer |-> Peer(self), pdu |-> pdu,
                    sent |-> forwarded(self, outcome), raised |-> raisedBy(self, outcome),
                    log |-> outcome.log]
        /\ UNCHANGED peer

-----------------------------------------------------------------------------
(* The RDPDR channel: each stealer receives the PDUs its end of the         *)
(* connection sends, in any interleaving.                                  *)

\* The payload of a response follows the kind of the request it answers;
\* a response nobody asked for carries no payload or the payload of a Read.
PayloadsFor(self, completionId) ==
    IF completionId \in DOMAIN completionIdInProgress[self]
    THEN LET requestPDU == completionIdInProgress[self][completionId]
         IN  CASE requestPDU.cls = "DeviceReadRequestPDU" -> ReadPayloads
               [] requestPDU.cls = "DeviceCreateRequestPDU" -> CreatePayloads
               [] OTHER -> { << >> }
    ELSE { << >>, ReadPayload(<< 7 >>) }

StealerInit ==
    /\ completionIdInProgress = [s \in Sides |-> EmptyDict]
    /\ openedFiles = [s \in Sides |-> EmptyDict]
    /\ finalFiles = [s \in Sides |-> EmptyDict]
    /\ pduToSend = [s \in Sides |-> None]
    /\ peer = [s \in Sides |-> NoPeer]
    /\ disk = EmptyDisk
    /\ call = None

Idle ==
    [phase |-> "idle", path |-> << >>, fileId |-> 0, readable |-> FALSE, nextOffset |-> 0,
     count |-> 0, pending |-> { }]

\* MITMClient.__init__ with no replacement credentials
ClientConstructed ==
    /\ tcp = [state |-> "connecting", tls |-> FALSE]
    /\ x224 = "idle"
    /\ mcs = "idle"
    /\ useTLS = FALSE
    /\ channelDefinitions = << >>
    /\ serverData = None
    /\ channelMap = EmptyDict
    /\ channelObservers = EmptyDict
    /\ securityLayer = None
    /\ securitySettings =
          [mode |-> "CLIENT", clientRandom |-> FALSE, serverRandom |-> FALSE,
           encryptionMethod |-> 0, keys |-> FALSE, notified |-> << >>]
    /\ channelStacks = EmptyDict
    /\ serverDisconnected = FALSE
    /\ segmentation = { "TPKT" }
    /\ slowPathLayer = [observers |-> << >>, previous |-> None]
    /\ user = None
    /\ out = None

StealerSpecInit ==
    /\ StealerInit
    /\ pdusReceived = 0
    /\ transfer = Idle
    /\ replacementUsername = NoString
    /\ replacementPassword = NoString
    /\ ClientConstructed
    /\ player = PlayerObserver({ })

\* One more PDU arrives on the RDPDR channel
Arrives ==
    /\ pdusReceived < MaxPDUs
    /\ pdusReceived' = pdusReceived + 1
    /\ UNCHANGED <<transfer, clientVars, player>>

\* The server side of the MITM, once it has built its own stealer, makes the
\* two stealers each other's peer
LinkPeers ==
    /\ \A self \in Sides : peer[self] = NoPeer
    /\ peer' = [self \in Sides |-> IF self = "client" THEN "server" ELSE "client"]
    /\ UNCHANGED <<completionIdInProgress, openedFiles, finalFiles, pduToSend, disk, call>>
    /\ UNCHANGED <<pdusReceived, transfer, clientVars, player>>

ReceiveIORequest(self) == Arrives /\ \E pdu \in IORequests : onPDUReceived(self, pdu)

ReceiveIOResponse(self) ==
    /\ Arrives
    /\ \E completionId \in CompletionIds, ioStatus \in IoStatuses :
        \E payload \in PayloadsFor(self, completionId) :
            onPDUReceived(self, IOResponse(completionId, ioStatus, payload))

ReceiveOtherPDU(self) == Arrives /\ \E pdu \in OtherPDUs : onPDUReceived(self, pdu)

StealerNext ==
    \/ LinkPeers
    \/ \E self \in Sides :
          \/ ReceiveIORequest(self)
          \/ ReceiveIOResponse(self)
          \/ ReceiveOtherPDU(self)

StealerSpec == StealerSpecInit /\ [][StealerNext]_vars

-----------------------------------------------------------------------------
(* A file transfer over RDPDR.  The real server reads a file of the victim: *)
(* its requests reach the client-side stealer, the victim's responses reach *)
(* the server-side stealer.  The server keeps up to MaxOutstanding requests *)
(* outstanding and the victim answers them in any order.                    *)

VictimFile == [i \in 1..FileLen |-> 10 + i]

TransferIds == 1..MaxOutstanding

Min(a, b) == IF a <= b THEN a ELSE b

\* What the victim returns for a Read of length bytes at offset
FileChunk(offset, length) == SubSeq(VictimFile, offset + 1, Min(offset + length, FileLen))

\* The requests in progress on the victim's side of the MITM
Outstanding == completionIdInProgress["server"]

\* The real server reuses a completionId once the victim has answered it
FreeIds == TransferIds \ transfer.pending

\* The requests of a class that the victim has not answered yet
PendingOf(cls) == { c \in transfer.pending : Outstanding[c].cls = cls }

ServerSendsCreate ==
    /\ peer["client"] # NoPeer
    /\ transfer.phase \in { "idle", "closed" }
    /\ transfer.count < MaxTransfers
    /\ \E completionId \in FreeIds, desiredAccess \in DesiredAccesses,
          createOptions \in CreateOptionses, path \in Paths :
          /\ onPDUReceived("client", CreateRequest(completionId, desiredAccess, createOptions, path))
          /\ transfer' = [transfer EXCEPT
                            !.phase = "creating", !.path = path, !.fileId = 0, !.nextOffset = 0,
                            !.readable = /\ desiredAccess \in { GENERIC_READ, FILE_READ_DATA }
                                         /\ createOptions = FILE_NON_DIRECTORY_FILE,
                            !.pending = @ \cup { completionId }]
    /\ pdusReceived' = pdusReceived + 1
    /\ UNCHANGED <<clientVars, player>>

VictimAnswersCreate ==
    /\ transfer.phase = "creating"
    /\ \E completionId \in PendingOf("DeviceCreateRequestPDU"), fileId \in FileIds :
          /\ onPDUReceived("server",
                 IOResponse(completionId, STATUS_SUCCESS, CreatePayload(fileId, FILE_OPENED)))
          /\ transfer' = [transfer EXCEPT !.phase = "open", !.fileId = fileId,
                                          !.pending = @ \ { completionId }]
    /\ pdusReceived' = pdusReceived + 1
    /\ UNCHANGED <<clientVars, player>>

ServerSendsRead ==
    /\ transfer.phase = "open"
    /\ transfer.readable
    /\ transfer.nextOffset < FileLen
    /\ \E completionId \in FreeIds :
          /\ onPDUReceived("client",
                 ReadRequest(completionId, transfer.fileId, transfer.nextOffset, ChunkLen))
          /\ transfer' = [transfer EXCEPT !.nextOffset = @ + ChunkLen,
                                          !.pending = @ \cup { completionId }]
    /\ pdusReceived' = pdusReceived + 1
    /\ UNCHANGED <<clientVars, player>>

VictimAnswersRead ==
    /\ transfer.phase = "open"
    /\ \E completionId \in PendingOf("DeviceReadRequestPDU") :
          LET requestPDU == Outstanding[completionId]
          IN  /\ onPDUReceived("server",
                     IOResponse(completionId, STATUS_SUCCESS,
                                ReadPayload(FileChunk(requestPDU.offset, requestPDU.length))))
              /\ transfer' = [transfer EXCEPT !.pending = @ \ { completionId }]
    /\ pdusReceived' = pdusReceived + 1
    /\ UNCHANGED <<clientVars, player>>

ServerSendsClose ==
    /\ transfer.phase = "open"
    /\ transfer.pending = { }
    /\ \E completionId \in FreeIds :
          /\ onPDUReceived("client", CloseRequest(completionId, transfer.fileId))
          /\ transfer' = [transfer EXCEPT !.phase = "closing", !.pending = { completionId }]
    /\ pdusReceived' = pdusReceived + 1
    /\ UNCHANGED <<clientVars, player>>

VictimAnswersClose ==
    /\ transfer.phase = "closing"
    /\ \E completionId \in PendingOf("DeviceCloseRequestPDU"), ioStatus \in IoStatuses :
          /\ onPDUReceived("server", IOResponse(completionId, ioStatus, << >>))
          /\ transfer' = [transfer EXCEPT !.phase = "closed", !.count = @ + 1,
                                          !.pending = @ \ { completionId }]
    /\ pdusReceived' = pdusReceived + 1
    /\ UNCHANGED <<clientVars, player>>

TransferNext ==
    \/ LinkPeers
    \/ ServerSendsCreate
    \/ VictimAnswersCreate
    \/ ServerSendsRead
    \/ VictimAnswersRead
    \/ ServerSendsClose
    \/ VictimAnswersClose

TransferSpec == StealerSpecInit /\ [][TransferNext]_vars

-----------------------------------------------------------------------------
(* MITMClient: the side of the MITM that talks to the real server.  Every   *)
(* handler leaves in "out" what it did: the calls it made on self.server,   *)
(* the PDUs it sent to the real server, the events it recorded, its log.    *)

TYPE_RDP_NEG_RSP == 2
TYPE_RDP_NEG_FAILURE == 3
RNS_UD_CS_SUPPORT_ERRINFO_PDU == 1
RNS_UD_CS_WANT_32BPP_SESSION == 2
INFO_MOUSE == 1
INFO_AUTOLOGON == 8
INFO_COMPRESSION == 128
\* 0x1E00
INFO_CompressionTypeMask == 7680
PACKET_COMPR_TYPE_64K == 512
ENCRYPTION_METHOD_128BIT == 2
IoChannelId == 1003

Usernames == { NoString, << "admin" >> }
Passwords == { NoString, << "hunter2" >> }

NegotiationResponses ==
    [type : { TYPE_RDP_NEG_RSP, TYPE_RDP_NEG_FAILURE }, tlsSelected : BOOLEAN]

NetworkDatas ==
    { None,
      [channelDefinitions |-> << "rdpdr" >>],
      [channelDefinitions |-> << "I/O" >>],
      [channelDefinitions |-> << "cliprdr", "rdpsnd" >>] }

ClientDatas ==
    [earlyCapabilityFlags :
        { 0, RNS_UD_CS_SUPPORT_ERRINFO_PDU, RNS_UD_CS_WANT_32BPP_SESSION,
          RNS_UD_CS_SUPPORT_ERRINFO_PDU + RNS_UD_CS_WANT_32BPP_SESSION },
     networkData : NetworkDatas]

ServerDatas ==
    [encryptionMethod : { 0, ENCRYPTION_METHOD_128BIT },
     mcsChannelID : { IoChannelId },
     channels : { << >>, << 1004 >>, << 1004, 1005 >> }]

ConnectResponses ==
    { [result |-> 0, serverData |-> d] : d \in ServerDatas }
        \cup { [result |-> 14, serverData |-> None] }

ChannelIds == { IoChannelId, 1004, 1005 }

\* An MCS result other than rt-successful, a first byte that starts no known
\* header, the reasons of a Disconnect Provider Ultimatum
RT_USER_REJECTED == 15
UnknownHeader == 255
UltimatumReasons == { 1, 3 }

LicensingDatas == { "licensing" }

ClientInfoFlagses ==
    { INFO_MOUSE,
      INFO_MOUSE + INFO_AUTOLOGON,
      INFO_MOUSE + INFO_COMPRESSION + PACKET_COMPR_TYPE_64K,
      INFO_AUTOLOGON + INFO_COMPRESSION + INFO_CompressionTypeMask }

ClientInfoPDUs == [username : { "victim" }, password : { "secret" }, flags : ClientInfoFlagses]

Did(handler, arg) ==
    [handler |-> handler, arg |-> arg, server |-> << >>, seen |-> None, sent |-> << >>,
     recorded |-> << >>, log |-> << >>, raised |-> "none"]

\* What the client side looks like at the moment a handler calls self.server
Seen(t, observers, data) == [tcp |-> t, channelObservers |-> observers, serverData |-> data]

ServerCall(method, args) == [method |-> method, args |-> args]

Sent(layer, pdu) == [layer |-> layer, pdu |-> pdu]

\* Recorder.record(pdu, messageType): the PDU is serialized when it is recorded
record(pdu, messageType) == [type |-> messageType, pdu |-> pdu]

\* The transport hands the real server's bytes to the layers from the moment it
\* is connected until it reports the loss of the connection; the handlers
\* themselves do not look at the state of the connection.
Open == tcp.state \in { "connected", "closing" }

startConnection ==
    /\ tcp.state = "connecting"
    /\ tcp' = [tcp EXCEPT !.state = "connected"]
    /\ x224' = "requested"
    /\ out' = [Did("startConnection", None) EXCEPT
                 !.log = << "debug: TCP connected" >>,
                 !.server = << ServerCall("getNegotiationPDU", << >>) >>,
                 !.seen = Seen(tcp', channelObservers, serverData),
                 !.sent = << Sent("x224.sendConnectionRequest", "negotiation") >>]
    /\ UNCHANGED <<replacementUsername, replacementPassword, mcs, useTLS, channelDefinitions,
                   serverData, channelMap, channelObservers, securityLayer>>
    /\ UNCHANGED <<securitySettings, channelStacks, serverDisconnected, segmentation,
                   slowPathLayer, user>>

\* A connection loss that is not passed on to the server side
onDisconnection_KeepsServer ==
    /\ tcp.state \in { "connected", "closing" }
    /\ tcp' = [tcp EXCEPT !.state = "closed"]
    /\ out' = [Did("onDisconnection", None) EXCEPT !.log = << "debug: Connection closed" >>]
    /\ UNCHANGED <<replacementUsername, replacementPassword, x224, mcs, useTLS, channelDefinitions,
                   serverData, channelMap, channelObservers, securityLayer>>
    /\ UNCHANGED <<securitySettings, channelStacks, serverDisconnected, segmentation,
                   slowPathLayer, user>>

onDisconnection ==
    /\ tcp.state \in { "connected", "closing" }
    /\ tcp' = [tcp EXCEPT !.state = "closed"]
    /\ out' = [Did("onDisconnection", None) EXCEPT
                 !.log = << "debug: Connection closed" >>,
                 !.server = << ServerCall("disconnect", << >>) >>,
                 !.seen = Seen(tcp', channelObservers, serverData)]
    /\ serverDisconnected' = TRUE
    /\ UNCHANGED <<replacementUsername, replacementPassword, x224, mcs, useTLS, channelDefinitions,
                   serverData, channelMap, channelObservers, securityLayer>>
    /\ UNCHANGED <<securitySettings, channelStacks, segmentation, slowPathLayer, user>>

\* self.tcp.disconnect(): a connection that is up starts closing
disconnect(t) == IF t.state = "connected" THEN [t EXCEPT !.state = "closing"] ELSE t

onDisconnectRequest ==
    /\ Open
    /\ x224 # "idle"
    /\ tcp' = disconnect(tcp)
    /\ out' = [Did("onDisconnectRequest", None) EXCEPT
                 !.log = << "debug: X224 Disconnect Request received", "debug: Disconnecting" >>]
    /\ UNCHANGED <<replacementUsername, replacementPassword, x224, mcs, useTLS, channelDefinitions,
                   serverData, channelMap, channelObservers, securityLayer>>
    /\ UNCHANGED <<securitySettings, channelStacks, serverDisconnected, segmentation,
                   slowPathLayer, user>>

onConnectionConfirm(response) ==
    /\ Open
    /\ x224 = "requested"
    /\ x224' = "connected"
    /\ tcp' = IF response.tlsSelected THEN [tcp EXCEPT !.tls = TRUE] ELSE tcp
    /\ useTLS' = IF response.tlsSelected THEN TRUE ELSE useTLS
    /\ out' = [Did("onConnectionConfirm", response) EXCEPT
                 !.log = << "debug: Connection Confirm received" >>
                         \o (IF response.type = TYPE_RDP_NEG_FAILURE
                             THEN << "error: Server returned a TYPE_RDP_NEG_FAILURE packet" >>
                             ELSE << >>),
                 !.server = << ServerCall("onConnectionConfirm", << response >>) >>,
                 !.seen = Seen(tcp', channelObservers, serverData)]
    /\ UNCHANGED <<replacementUsername, replacementPassword, mcs, channelDefinitions,
                   serverData, channelMap, channelObservers, securityLayer>>
    /\ UNCHANGED <<securitySettings, channelStacks, serverDisconnected, segmentation,
                   slowPathLayer, user>>

\* Clears every early capability flag instead of the one bit
clearWant32BPP_ClearsAllFlags(clientData) == [clientData EXCEPT !.earlyCapabilityFlags = 0]

\* clientData.coreData.earlyCapabilityFlags &= ~RNS_UD_CS_WANT_32BPP_SESSION
clearWant32BPP(clientData) ==
    [clientData EXCEPT !.earlyCapabilityFlags = AndNot(@, RNS_UD_CS_WANT_32BPP_SESSION)]

\* Called by the server side with the victim's Connect Initial, which follows
\* the X.224 handshake; the state of the client's connection is not looked at.
onConnectInitial(clientData) ==
    /\ x224 = "connected"
    /\ mcs = "idle"
    /\ mcs' = "initialSent"
    /\ channelDefinitions' = IF clientData.networkData # None
                             THEN clientData.networkData.channelDefinitions
                             ELSE channelDefinitions
    /\ out' = [Did("onConnectInitial", clientData) EXCEPT
                 !.log = << "info: Client Data received" >>,
                 !.recorded = << record(clientData, "CLIENT_DATA") >>,
                 !.sent = << Sent("rdpConnect.sendPDU", clearWant32BPP(clientData)) >>]
    /\ UNCHANGED <<replacementUsername, replacementPassword, tcp, x224, useTLS,
                   serverData, channelMap, channelObservers, securityLayer>>
    /\ UNCHANGED <<securitySettings, channelStacks, serverDisconnected, segmentation,
                   slowPathLayer, user>>

\* SecuritySettings: keys are derived as soon as both randoms are known
generateKeys(settings) ==
    IF settings.clientRandom /\ settings.serverRandom
    THEN [settings EXCEPT !.keys = TRUE, !.notified = @ \o << "keysDerived" >>]
    ELSE settings

generateClientRandom(settings) ==
    generateKeys([settings EXCEPT
                    !.clientRandom = TRUE, !.notified = @ \o << "clientRandomGenerated" >>])

serverSecurityReceived(settings, encryptionMethod) ==
    generateKeys([settings EXCEPT
                    !.serverRandom = TRUE, !.encryptionMethod = encryptionMethod,
                    !.notified = @ \o << "serverSecurityReceived" >>])

\* The loop of onServerData over the first n channels of the server's list
RECURSIVE mapChannels(_, _, _, _)
mapChannels(map, channels, definitions, n) ==
    IF n = 0 THEN map
    ELSE Put(mapChannels(map, channels, definitions, n - 1), channels[n], definitions[n])

\* onServerData: the channel map it leaves and the exception it raises, if any
onServerData(data) ==
    LET io == Put(channelMap, data.mcsChannelID, "I/O")
        named == Min(Len(data.channels), Len(channelDefinitions))
    IN  [channelMap |-> mapChannels(io, data.channels, channelDefinitions, named),
         raised |-> IF Len(data.channels) > Len(channelDefinitions)
                    THEN "IndexError" ELSE "none",
         settings |-> serverSecurityReceived(generateClientRandom(securitySettings),
                                             data.encryptionMethod)]

onConnectResponse(pdu) ==
    /\ Open
    /\ mcs = "initialSent"
    /\ mcs' = IF pdu.result # 0 THEN "refused" ELSE "connected"
    /\ IF pdu.result # 0
       THEN /\ out' = [Did("onConnectResponse", pdu) EXCEPT
                         !.log = << "error: MCS Connection Failed" >>,
                         !.server = << ServerCall("onConnectResponse", << pdu, None >>) >>,
                         !.seen = Seen(tcp, channelObservers, serverData)]
            /\ UNCHANGED <<serverData, channelMap, securitySettings>>
       ELSE LET parsed == onServerData(pdu.serverData)
            IN  /\ serverData' = pdu.serverData
                /\ channelMap' = parsed.channelMap
                /\ securitySettings' = parsed.settings
                /\ out' = [Did("onConnectResponse", pdu) EXCEPT
                             !.log = << "debug: MCS Connection Successful" >>,
                             !.raised = parsed.raised,
                             !.server = IF parsed.raised = "none"
                                        THEN << ServerCall("onConnectResponse",
                                                           << pdu, serverData' >>) >>
                                        ELSE << >>,
                             !.seen = IF parsed.raised = "none"
                                      THEN Seen(tcp, channelObservers, serverData')
                                      ELSE None]
    /\ UNCHANGED <<replacementUsername, replacementPassword, tcp, x224, useTLS,
                   channelDefinitions, channelObservers, securityLayer>>
    /\ UNCHANGED <<channelStacks, serverDisconnected, segmentation, slowPathLayer, user>>

\* A native security layer whatever was negotiated
createSecurityLayer_AlwaysNative ==
    [type |-> "SecurityLayer", encryptionMethod |-> serverData.encryptionMethod,
     crypter |-> "self.crypter", securityHeaderExpected |-> FALSE]

createSecurityLayer ==
    IF useTLS
    THEN [type |-> "TLSSecurityLayer", securityHeaderExpected |-> FALSE]
    ELSE [type |-> "SecurityLayer", encryptionMethod |-> serverData.encryptionMethod,
          crypter |-> "self.crypter", securityHeaderExpected |-> FALSE]

\* The device-redirection channel gets the raw pass-through observer
observerFor_NoFileStealer(channelName) ==
    CASE channelName = << "I/O" >> -> "MITMSlowPathObserver"
      [] channelName = << "cliprdr" >> -> "ActiveClipboardStealer"
      [] OTHER -> "MITMVirtualChannelObserver"

\* The observer that the stack built for a channel of this name registers
observerFor(channelName) ==
    CASE channelName = << "I/O" >> -> "MITMSlowPathObserver"
      [] channelName = << "cliprdr" >> -> "ActiveClipboardStealer"
      [] channelName = << "rdpdr" >> -> "PassiveFileStealerClient"
      [] OTHER -> "MITMVirtualChannelObserver"

\* self.slowPathLayer after buildIOChannel has added its two observers to it
addSlowPathObservers(layer) ==
    [layer EXCEPT
       !.observers = @ \o << "MITMSlowPathObserver", "RecordingSlowPathObserver" >>]

\* LayerChainItem.chain(channel, self.securityLayer, self.slowPathLayer): the
\* slow-path layer now follows the security layer of this channel
chain(layer, channelID) == [layer EXCEPT !.previous = [channelID |-> channelID]]

\* Every stack that ends in self.slowPathLayer shows the observers of that layer
onSlowPathLayer(stacks, layer) ==
    [channelID \in DOMAIN stacks |->
        IF stacks[channelID].layers[3] = "SlowPathLayer"
        THEN [stacks[channelID] EXCEPT !.observers = layer.observers]
        ELSE stacks[channelID]]

\* self.securityLayer as buildIOChannel leaves it
ioSecurityLayer == [createSecurityLayer EXCEPT !.securityHeaderExpected = useTLS]

\* The layers that build*Channel chains for a channel of this name, the
\* observers of the top layer and those of the fast-path layer (I/O only). The
\* I/O stack is chained from self.securityLayer and the one self.slowPathLayer,
\* which keeps the observers of every earlier build.
stackFor(channelName) ==
    CASE channelName = << "I/O" >> ->
            [layers |-> << "MCSClientChannel", ioSecurityLayer, "SlowPathLayer" >>,
             observers |-> addSlowPathObservers(slowPathLayer).observers,
             fastPath |-> << "MITMFastPathObserver", "RecordingFastPathObserver" >>]
      [] channelName = << "cliprdr" >> ->
            [layers |-> << "MCSClientChannel", createSecurityLayer, "VirtualChannelLayer",
                           "ClipboardLayer" >>,
             observers |-> << "ActiveClipboardStealer" >>,
             fastPath |-> << >>]
      [] channelName = << "rdpdr" >> ->
            [layers |-> << "MCSClientChannel", createSecurityLayer, "VirtualChannelLayer",
                           "DeviceRedirectionLayer" >>,
             observers |-> << "PassiveFileStealerClient" >>,
             fastPath |-> << >>]
      [] OTHER ->
            [layers |-> << "MCSClientChannel", createSecurityLayer, "RawLayer" >>,
             observers |-> << "MITMVirtualChannelObserver" >>,
             fastPath |-> << >>]

getChannelObserver(channelID) == channelObservers[channelID]

\* self.channelMap.get(channelID, None)
ChannelName(channelID) ==
    IF channelID \in DOMAIN channelMap THEN << channelMap[channelID] >> ELSE NoString

\* A Security Exchange whenever the server encrypts, TLS or not
securityExchange_EvenUnderTLS ==
    IF serverData.encryptionMethod # 0
    THEN << Sent("sendSecurityExchange", "encryptedClientRandom") >>
    ELSE << >>

\* What buildIOChannel sends to the real server once the stack is chained
securityExchange ==
    IF ~useTLS /\ serverData.encryptionMethod # 0
    THEN << Sent("sendSecurityExchange", "encryptedClientRandom") >>
    ELSE << >>

\* onChannelJoinAccepted called before the channel is built
buildChannel_TellsServerFirst(userID, channelID) ==
    /\ Open
    /\ mcs = "connected"
    /\ LET channelName == ChannelName(channelID)
       IN  /\ channelObservers' = Put(channelObservers, channelID, observerFor(channelName))
           /\ slowPathLayer' =
                 IF channelName = << "I/O" >>
                 THEN chain(addSlowPathObservers(slowPathLayer), channelID)
                 ELSE slowPathLayer
           /\ channelStacks' = Put(onSlowPathLayer(channelStacks, slowPathLayer'),
                                   channelID, stackFor(channelName))
           /\ securityLayer' =
                 IF channelName = << "I/O" >> THEN ioSecurityLayer ELSE securityLayer
           /\ out' = [Did("buildChannel", << userID, channelID >>) EXCEPT
                        !.log = << "debug: building channel" >>
                                \o (IF channelName = << "I/O" >> /\ ~useTLS
                                       /\ serverData.encryptionMethod # 0
                                    THEN << "debug: Sending Security Exchange" >> ELSE << >>),
                        !.sent = IF channelName = << "I/O" >> THEN securityExchange ELSE << >>,
                        !.server = << ServerCall("onChannelJoinAccepted",
                                                 << userID, channelID >>) >>,
                        !.seen = Seen(tcp, channelObservers, serverData)]
    /\ UNCHANGED <<replacementUsername, replacementPassword, tcp, x224, mcs, useTLS,
                   channelDefinitions, serverData, channelMap>>
    /\ segmentation' = IF ChannelName(channelID) = << "I/O" >>
                       THEN segmentation \cup { "FAST_PATH" } ELSE segmentation
    /\ UNCHANGED <<securitySettings, serverDisconnected, user>>

buildChannel(userID, channelID) ==
    /\ Open
    /\ mcs = "connected"
    /\ LET channelName == ChannelName(channelID)
       IN  /\ channelObservers' = Put(channelObservers, channelID, observerFor(channelName))
           /\ slowPathLayer' =
                 IF channelName = << "I/O" >>
                 THEN chain(addSlowPathObservers(slowPathLayer), channelID)
                 ELSE slowPathLayer
           /\ channelStacks' = Put(onSlowPathLayer(channelStacks, slowPathLayer'),
                                   channelID, stackFor(channelName))
           /\ securityLayer' =
                 IF channelName = << "I/O" >> THEN ioSecurityLayer ELSE securityLayer
           /\ out' = [Did("buildChannel", << userID, channelID >>) EXCEPT
                        !.log = << "debug: building channel" >>
                                \o (IF channelName = << "I/O" >> /\ ~useTLS
                                       /\ serverData.encryptionMethod # 0
                                    THEN << "debug: Sending Security Exchange" >> ELSE << >>),
                        !.sent = IF channelName = << "I/O" >> THEN securityExchange ELSE << >>,
                        !.server = << ServerCall("onChannelJoinAccepted",
                                                 << userID, channelID >>) >>,
                        !.seen = Seen(tcp, channelObservers', serverData)]
    /\ UNCHANGED <<replacementUsername, replacementPassword, tcp, x224, mcs, useTLS,
                   channelDefinitions, serverData, channelMap>>
    /\ segmentation' = IF ChannelName(channelID) = << "I/O" >>
                       THEN segmentation \cup { "FAST_PATH" } ELSE segmentation
    /\ UNCHANGED <<securitySettings, serverDisconnected, user>>

\* Everything of the MITM client but the last handler run
clientState ==
    <<replacementUsername, replacementPassword, tcp, x224, mcs, useTLS, channelDefinitions,
      serverData, channelMap, channelObservers, securityLayer, securitySettings,
      channelStacks, serverDisconnected, segmentation, slowPathLayer, user>>

onChannelJoinRefused(userID, result, channelID) ==
    /\ Open
    /\ mcs = "connected"
    /\ out' = [Did("onChannelJoinRefused", << userID, result, channelID >>) EXCEPT
                 !.server = << ServerCall("onChannelJoinRefused",
                                          << userID, result, channelID >>) >>,
                 !.seen = Seen(tcp, channelObservers, serverData)]
    /\ UNCHANGED clientState

onUnknownTPKTHeader(header) ==
    /\ Open
    /\ tcp' = disconnect(tcp)
    /\ out' = [Did("onUnknownTPKTHeader", header) EXCEPT
                 !.log = << "error: Closing the connection because an unknown TPKT header was received",
                            "debug: Disconnecting" >>]
    /\ UNCHANGED <<replacementUsername, replacementPassword, x224, mcs, useTLS, channelDefinitions,
                   serverData, channelMap, channelObservers, securityLayer>>
    /\ UNCHANGED <<securitySettings, channelStacks, serverDisconnected, segmentation,
                   slowPathLayer, user>>

onDisconnectProviderUltimatum(pdu) ==
    /\ Open
    /\ x224 = "connected"
    /\ out' = [Did("onDisconnectProviderUltimatum", pdu) EXCEPT
                 !.log = << "debug: Disconnect Provider Ultimatum received" >>,
                 !.server = << ServerCall("sendDisconnectProviderUltimatum", << pdu >>) >>,
                 !.seen = Seen(tcp, channelObservers, serverData)]
    /\ UNCHANGED clientState

\* Licensing data that leaves securityHeaderExpected as it is
onLicensingDataReceived_KeepsHeader(data) ==
    /\ Open
    /\ securityLayer # None
    /\ out' = [Did("onLicensingDataReceived", data) EXCEPT
                 !.log = << "debug: Licensing data received" >>,
                 !.server = << ServerCall("onLicensingDataReceived", << data >>) >>,
                 !.seen = Seen(tcp, channelObservers, serverData)]
    /\ UNCHANGED clientState

\* The stacks once self.securityLayer has become this layer: it is the security
\* layer of the I/O stack built last, the one the slow-path layer follows
withIOSecurityLayer(stacks, layer) ==
    [stacks EXCEPT ![slowPathLayer.previous.channelID].layers[2] = layer]

\* The caller is the observer that buildIOChannel creates on self.securityLayer
onLicensingDataReceived(data) ==
    /\ Open
    /\ securityLayer # None
    /\ securityLayer' = IF useTLS
                        THEN [securityLayer EXCEPT !.securityHeaderExpected = FALSE]
                        ELSE securityLayer
    /\ channelStacks' = withIOSecurityLayer(channelStacks, securityLayer')
    /\ out' = [Did("onLicensingDataReceived", data) EXCEPT
                 !.log = << "debug: Licensing data received" >>,
                 !.server = << ServerCall("onLicensingDataReceived", << data >>) >>,
                 !.seen = Seen(tcp, channelObservers, serverData)]
    /\ UNCHANGED <<replacementUsername, replacementPassword, tcp, x224, mcs, useTLS,
                   channelDefinitions, serverData, channelMap, channelObservers>>
    /\ UNCHANGED <<securitySettings, serverDisconnected, segmentation, slowPathLayer, user>>

\* Sets INFO_AUTOLOGON as soon as one replacement credential is configured
clientInfoToSend_AutologonIfEither(pdu) ==
    LET named == IF replacementUsername # NoString
                 THEN [pdu EXCEPT !.username = replacementUsername[1]] ELSE pdu
        keyed == IF replacementPassword # NoString
                 THEN [named EXCEPT !.password = replacementPassword[1]] ELSE named
        logon == IF replacementUsername # NoString \/ replacementPassword # NoString
                 THEN [keyed EXCEPT !.flags = BitOr(@, INFO_AUTOLOGON)] ELSE keyed
    IN  [logon EXCEPT
           !.flags = AndNot(AndNot(@, INFO_COMPRESSION), INFO_CompressionTypeMask)]

\* The ClientInfoPDU as onClientInfoPDUReceived leaves it before sending it
clientInfoToSend(pdu) ==
    LET named == IF replacementUsername # NoString
                 THEN [pdu EXCEPT !.username = replacementUsername[1]] ELSE pdu
        keyed == IF replacementPassword # NoString
                 THEN [named EXCEPT !.password = replacementPassword[1]] ELSE named
        logon == IF replacementUsername # NoString /\ replacementPassword # NoString
                 THEN [keyed EXCEPT !.flags = BitOr(@, INFO_AUTOLOGON)] ELSE keyed
    IN  [logon EXCEPT
           !.flags = AndNot(AndNot(@, INFO_COMPRESSION), INFO_CompressionTypeMask)]

\* Called by the server side with the victim's Client Info. Before the I/O
\* channel is built self.securityLayer is None and the call of sendClientInfo,
\* which comes after the log line, raises AttributeError.
onClientInfoPDUReceived(pdu) ==
    /\ out' = [Did("onClientInfoPDUReceived", pdu) EXCEPT
                 !.log = << "debug: Sending Client Info" >>,
                 !.raised = IF securityLayer = None THEN "AttributeError" ELSE "none",
                 !.sent = IF securityLayer = None THEN << >>
                          ELSE << Sent("securityLayer.sendClientInfo",
                                       clientInfoToSend(pdu)) >>]
    /\ UNCHANGED clientState

\* self.router.createUser() followed by addObserver(self) and attach(), which
\* sends the Attach User Request
onAttachUserRequest ==
    /\ user' = [observers |-> << "MITMClient" >>]
    /\ out' = [Did("onAttachUserRequest", None) EXCEPT
                 !.sent = << Sent("user.attach", [cls |-> "MCSAttachUserRequestPDU"]) >>]
    /\ UNCHANGED <<replacementUsername, replacementPassword, tcp, x224, mcs, useTLS,
                   channelDefinitions, serverData, channelMap, channelObservers, securityLayer>>
    /\ UNCHANGED <<securitySettings, channelStacks, serverDisconnected, segmentation,
                   slowPathLayer>>

\* The caller is the user that onAttachUserRequest made the client observe
onAttachConfirmed(userID) ==
    /\ Open
    /\ user # None
    /\ out' = [Did("onAttachConfirmed", << userID >>) EXCEPT
                 !.server = << ServerCall("onAttachConfirmed", << userID >>) >>,
                 !.seen = Seen(tcp, channelObservers, serverData)]
    /\ UNCHANGED clientState

onAttachRefused(userID, result) ==
    /\ Open
    /\ user # None
    /\ out' = [Did("onAttachRefused", << userID, result >>) EXCEPT
                 !.server = << ServerCall("onAttachRefused", << userID, result >>) >>,
                 !.seen = Seen(tcp, channelObservers, serverData)]
    /\ UNCHANGED clientState

\* Called by the server side with the victim's Channel Join Request
onChannelJoinRequest(pdu) ==
    /\ out' = [Did("onChannelJoinRequest", pdu) EXCEPT
                 !.sent = << Sent("mcs.sendPDU", pdu) >>]
    /\ UNCHANGED clientState

\* disconnect() called from outside the client, by the server side
disconnectCalled ==
    /\ tcp' = disconnect(tcp)
    /\ out' = [Did("disconnect", None) EXCEPT !.log = << "debug: Disconnecting" >>]
    /\ UNCHANGED <<replacementUsername, replacementPassword, x224, mcs, useTLS, channelDefinitions,
                   serverData, channelMap, channelObservers, securityLayer>>
    /\ UNCHANGED <<securitySettings, channelStacks, serverDisconnected, segmentation,
                   slowPathLayer, user>>

Init ==
    /\ StealerInit
    /\ pdusReceived = 0
    /\ transfer = Idle
    /\ replacementUsername \in Usernames
    /\ replacementPassword \in Passwords
    /\ ClientConstructed
    /\ player = PlayerObserver({ })

\* The RDPDR stealers are not part of a step of the MITM client
StealersIdle == UNCHANGED <<stealerVars, pdusReceived, transfer, player>>

StartConnection == startConnection /\ StealersIdle

ConnectionConfirm ==
    /\ \E response \in NegotiationResponses : onConnectionConfirm(response)
    /\ StealersIdle

ConnectInitial ==
    /\ \E clientData \in ClientDatas : onConnectInitial(clientData)
    /\ StealersIdle

ConnectResponse ==
    /\ \E pdu \in ConnectResponses : onConnectResponse(pdu)
    /\ StealersIdle

\* The I/O channel is joined at most MaxIOBuilds times
ChannelJoinConfirm ==
    /\ \E channelID \in ChannelIds :
          /\ ChannelName(channelID) = << "I/O" >> =>
                Len(slowPathLayer.observers) < 2 * MaxIOBuilds
          /\ buildChannel(1, channelID)
    /\ StealersIdle

ClientInfo ==
    /\ \E pdu \in ClientInfoPDUs : onClientInfoPDUReceived(pdu)
    /\ StealersIdle

ChannelJoinRefused ==
    /\ \E channelID \in ChannelIds : onChannelJoinRefused(1, RT_USER_REJECTED, channelID)
    /\ StealersIdle

UnknownTPKTHeader == onUnknownTPKTHeader(UnknownHeader) /\ StealersIdle

DisconnectProviderUltimatum ==
    /\ \E reason \in UltimatumReasons :
          onDisconnectProviderUltimatum([cls |-> "MCSDisconnectProviderUltimatumPDU",
                                         reason |-> reason])
    /\ StealersIdle

LicensingData ==
    /\ \E data \in LicensingDatas : onLicensingDataReceived(data)
    /\ StealersIdle

DisconnectRequest == onDisconnectRequest /\ StealersIdle

AttachUserRequest == onAttachUserRequest /\ StealersIdle

AttachConfirmed == onAttachConfirmed(1) /\ StealersIdle

AttachRefused == onAttachRefused(1, RT_USER_REJECTED) /\ StealersIdle

ChannelJoinRequest ==
    /\ \E channelID \in ChannelIds :
          onChannelJoinRequest([cls |-> "MCSChannelJoinRequestPDU", initiator |-> 1,
                                channelID |-> channelID])
    /\ StealersIdle

Disconnect == disconnectCalled /\ StealersIdle

Disconnection == onDisconnection /\ StealersIdle

Next ==
    \/ StartConnection
    \/ ConnectionConfirm
    \/ ConnectInitial
    \/ ConnectResponse
    \/ ChannelJoinConfirm
    \/ ClientInfo
    \/ ChannelJoinRefused
    \/ UnknownTPKTHeader
    \/ DisconnectProviderUltimatum
    \/ LicensingData
    \/ DisconnectRequest
    \/ AttachUserRequest
    \/ AttachConfirmed
    \/ AttachRefused
    \/ ChannelJoinRequest
    \/ Disconnect
    \/ Disconnection

Spec == Init /\ [][Next]_vars

\* A connection that the MITM has asked to close does close: the transport
\* reports the loss and onDisconnection runs.
FairSpec == Spec /\ WF_vars(tcp.state = "closing" /\ Disconnection)

-----------------------------------------------------------------------------
(* A player reading a recording: its observer receives the messages one by one *)

PlayerInit ==
    /\ StealerInit
    /\ pdusReceived = 0
    /\ transfer = Idle
    /\ replacementUsername = NoString
    /\ replacementPassword = NoString
    /\ ClientConstructed
    /\ player \in { PlayerObserver(overridden) : overridden \in SUBSET Hooks }

ReceivePlayerMessage ==
    /\ \E header \in MessageTypes : player' = [player EXCEPT !.last = routePDU(player, header)]
    /\ UNCHANGED <<stealerVars, pdusReceived, transfer, clientVars>>

PlayerNext == ReceivePlayerMessage

PlayerSpec == PlayerInit /\ [][PlayerNext]_vars

-----------------------------------------------------------------------------
(* Properties of the passive file stealer *)

IsResponseCall(c) == c # None /\ c.pdu.cls = "DeviceIOResponsePDU"

\* C1: whatever PDU a stealer receives, onPDUReceived forwards exactly one PDU
\* to the peer and that PDU carries the content of the PDU received.
C1_ForwardsExactlyOnePDU ==
    (call # None /\ call.peer # NoPeer) =>
        /\ Len(call.sent) = 1
        /\ ResponseContent(call.sent[1]) = ResponseContent(call.pdu)

\* C2: no PDU received by a stealer, in any state of the two stealers, makes a
\* handler raise: every onPDUReceived call completes normally.
C2_NoHandlerRaises == (call # None /\ call.peer # NoPeer) => call.raised = "none"

\* The path on disk of the file the real server is transferring
TransferredPath == Join(Names(Steps(goodPath(bytesToPath(transfer.path)))))

\* The part of the file that the Reads of the transfer asked for
Requested == Min(transfer.nextOffset, FileLen)

\* C3: once the Close response of a Create / Read* / Close transfer has been
\* handled, the file on disk holds the data of every Read response at the offset
\* of its Read request, whatever the order the responses arrived in; for the
\* first transfer the flushed bytes are exactly the bytes read.
C3_FlushedBytesAtOffsets ==
    (/\ transfer.phase = "closed" /\ transfer.readable /\ transfer.nextOffset > 0
     /\ call.raised = "none") =>
        /\ TransferredPath \in DOMAIN disk.files
        /\ Len(disk.files[TransferredPath]) >= Requested
        /\ \A i \in 1..Requested : disk.files[TransferredPath][i] = VictimFile[i]
        /\ transfer.count = 1 => disk.files[TransferredPath] = SubSeq(VictimFile, 1, Requested)

\* C3 witness: a whole file read in three chunks has been flushed, and the
\* second chunk reached the buffer before the first one in some run.
C3_Witness ==
    /\ transfer.phase = "closed"
    /\ transfer.readable
    /\ transfer.count = 1
    /\ transfer.nextOffset >= FileLen
    /\ call.raised = "none"
    /\ TransferredPath \in DOMAIN disk.files
    /\ disk.files[TransferredPath] = VictimFile

\* C4: after the Close response of a file that was open, openedFiles no longer
\* holds the fileId and the partial-file table no longer holds the path.
C4_CloseDropsFileAndBuffer ==
    (transfer.phase = "closed" /\ transfer.readable) =>
        /\ transfer.fileId \notin DOMAIN openedFiles["server"]
        /\ bytesToPath(transfer.path) \notin DOMAIN finalFiles["server"]

\* The Create request asks for read access to a file that is not a directory
ReadIntentOnFile(requestPDU) ==
    /\ (31 \in requestPDU.desiredAccess \/ 0 \in requestPDU.desiredAccess)
    /\ 6 \in requestPDU.createOptions

\* The step is an onPDUReceived call on this stealer
Receives(self) == pdusReceived' # pdusReceived /\ call'.self = self

\* The step is onPDUReceived of a response to a Create request in progress
IsCreateResponseStep(self) ==
    /\ Receives(self)
    /\ call'.pdu.cls = "DeviceIOResponsePDU"
    /\ call'.pdu.completionId \in DOMAIN completionIdInProgress[self]
    /\ completionIdInProgress[self][call'.pdu.completionId].cls = "DeviceCreateRequestPDU"

\* C5: only a Create response adds to openedFiles, and it adds
\* (response fileId -> request path) exactly when the request has read intent and
\* FILE_NON_DIRECTORY_FILE, whatever the ioStatus; any other step adds nothing.
C5_OnlyCreateResponseOpens ==
    [][\A self \in Sides :
          IF IsCreateResponseStep(self)
          THEN LET requestPDU == completionIdInProgress[self][call'.pdu.completionId]
                   fileId == UnpackUint32LE(call'.pdu.payload)
               IN  IF ReadIntentOnFile(requestPDU)
                   THEN openedFiles'[self] = Put(openedFiles[self], fileId, requestPDU.path)
                   ELSE openedFiles'[self] = openedFiles[self]
          ELSE \A f \in DOMAIN openedFiles'[self] :
                  f \in DOMAIN openedFiles[self] /\ openedFiles'[self][f] = openedFiles[self][f]
      ]_vars

\* C5 witness: a Create response with an error ioStatus has opened a file
C5_Witness ==
    /\ IsResponseCall(call)
    /\ call.pdu.ioStatus = STATUS_UNSUCCESSFUL
    /\ call.sent # << >>
    /\ call.sent[1].cls = "DeviceCreateResponsePDU"
    /\ call.sent[1].fileId \in DOMAIN openedFiles[call.self]

\* C6: a request is stored in the peer's table only, and once a stealer has
\* handled a response whose completionId is in progress, that completionId is
\* no longer in progress.
C6_ResponseEndsProgress ==
    [][\A self \in Sides :
          /\ (Receives(self) /\ call'.peer # NoPeer /\ IsIORequest(call'.pdu)) =>
                /\ completionIdInProgress'[self] = completionIdInProgress[self]
                /\ completionIdInProgress'[Peer(self)] =
                      Put(completionIdInProgress[Peer(self)], call'.pdu.completionId, call'.pdu)
          /\ (Receives(self) /\ call'.peer # NoPeer
              /\ call'.pdu.cls = "DeviceIOResponsePDU") =>
                call'.pdu.completionId \notin DOMAIN completionIdInProgress'[self]
      ]_vars

-----------------------------------------------------------------------------
(* Properties of the MITM client *)

Ran(handler) == out # None /\ out.handler = handler

BothConfigured == replacementUsername # NoString /\ replacementPassword # NoString

\* INFO_COMPRESSION | INFO_CompressionTypeMask
CompressionBits == INFO_COMPRESSION + INFO_CompressionTypeMask

\* The ClientInfoPDU received with the compression flags cleared
Uncompressed(pdu) == [pdu EXCEPT !.flags = AndNot(@, CompressionBits)]

\* A ClientInfoPDU was handed to the I/O security layer
Forwarded == Ran("onClientInfoPDUReceived") /\ out.raised = "none"

\* C7 as stated: with both replacement credentials configured the forwarded
\* ClientInfoPDU carries them and has INFO_AUTOLOGON; otherwise, also when only
\* one is configured, it is the received PDU with the compression flags cleared.
C7_ReplacedOnlyWhenBothConfigured ==
    Forwarded =>
        LET forwardedPDU == out.sent[1].pdu
        IN  IF BothConfigured
            THEN /\ forwardedPDU.username = replacementUsername[1]
                 /\ forwardedPDU.password = replacementPassword[1]
                 /\ BitAnd(forwardedPDU.flags, INFO_AUTOLOGON) = INFO_AUTOLOGON
            ELSE forwardedPDU = Uncompressed(out.arg)

\* C7 amended: each configured replacement credential replaces the victim's,
\* an unconfigured one leaves the victim's in place; INFO_AUTOLOGON is set when
\* both are configured and is the victim's bit otherwise; with none configured
\* the forwarded PDU is the received one with the compression flags cleared.
C7_EachConfiguredCredentialReplaced ==
    Forwarded =>
        LET forwardedPDU == out.sent[1].pdu
        IN  /\ forwardedPDU.username =
                  IF replacementUsername # NoString THEN replacementUsername[1]
                  ELSE out.arg.username
            /\ forwardedPDU.password =
                  IF replacementPassword # NoString THEN replacementPassword[1]
                  ELSE out.arg.password
            /\ BitAnd(forwardedPDU.flags, INFO_AUTOLOGON) =
                  IF BothConfigured THEN INFO_AUTOLOGON
                  ELSE BitAnd(out.arg.flags, INFO_AUTOLOGON)
            /\ (replacementUsername = NoString /\ replacementPassword = NoString) =>
                  forwardedPDU = Uncompressed(out.arg)

\* C7 witness: only the username is configured; the forwarded PDU carries it
\* with the victim's password and without INFO_AUTOLOGON.
C7_Witness ==
    /\ Forwarded
    /\ replacementUsername # NoString
    /\ replacementPassword = NoString
    /\ out.sent[1].pdu.username = replacementUsername[1]
    /\ out.sent[1].pdu.password = out.arg.password
    /\ BitAnd(out.sent[1].pdu.flags, INFO_AUTOLOGON) = 0

\* C8: every ClientInfoPDU is forwarded exactly once, through the I/O channel's
\* security layer, with INFO_COMPRESSION and the compression-type mask cleared
\* and every other flag bit except INFO_AUTOLOGON as received.
C8_CompressionAlwaysCleared ==
    Ran("onClientInfoPDUReceived") =>
        /\ Len(out.sent) = 1
        /\ out.sent[1].layer = "securityLayer.sendClientInfo"
        /\ BitAnd(out.sent[1].pdu.flags, CompressionBits) = 0
        /\ AndNot(out.sent[1].pdu.flags, CompressionBits + INFO_AUTOLOGON)
              = AndNot(out.arg.flags, CompressionBits + INFO_AUTOLOGON)

\* C9: on a Connection Confirm of type TYPE_RDP_NEG_FAILURE the client side
\* disconnects its TCP connection and does not pass the confirm to the server side.
C9_NegotiationFailureDisconnects ==
    (Ran("onConnectionConfirm") /\ out.arg.type = TYPE_RDP_NEG_FAILURE) =>
        /\ tcp.state \in { "closing", "closed" }
        /\ out.server = << >>

\* C10: handling a Connect Initial records exactly one CLIENT_DATA event, whose
\* ClientData has RNS_UD_CS_WANT_32BPP_SESSION cleared.
C10_RecordedClientDataWithout32BPP ==
    Ran("onConnectInitial") =>
        /\ Len(out.recorded) = 1
        /\ out.recorded[1].type = "CLIENT_DATA"
        /\ BitAnd(out.recorded[1].pdu.earlyCapabilityFlags, RNS_UD_CS_WANT_32BPP_SESSION) = 0

\* C11: the observers of the security settings hear serverSecurityReceived first,
\* then clientRandomGenerated, then keysDerived.
C11_ServerSecurityBeforeClientRandom ==
    securitySettings.notified # << >> =>
        securitySettings.notified =
            << "serverSecurityReceived", "clientRandomGenerated", "keysDerived" >>

Closing == tcp.state \in { "closing", "closed" }

BothClosed == tcp.state = "closed" /\ serverDisconnected

\* C12: an unknown header byte is fatal in any state of the session: the TCP
\* connection is disconnected at once, nothing is forwarded afterwards, and the
\* loss of the connection disconnects the server side, so both sides end closed.
C12_UnknownHeaderTearsDown ==
    /\ [](Ran("onUnknownTPKTHeader") => Closing)
    /\ [][Closing => (out'.sent = << >> /\ out'.recorded = << >>)]_vars
    /\ Ran("onUnknownTPKTHeader") ~> BothClosed

\* C13: whenever the client-side TCP connection closes, whether the real server
\* closed it or the MITM asked for it, onDisconnection calls the server side's
\* disconnect(), and a connection being closed ends with both sides closed.
C13_DisconnectionPropagates ==
    /\ [][(tcp.state # "closed" /\ tcp'.state = "closed") =>
             /\ out'.handler = "onDisconnection"
             /\ out'.server = << ServerCall("disconnect", << >>) >>
             /\ serverDisconnected']_vars
    /\ [](tcp.state = "closed" => serverDisconnected)
    /\ (tcp.state = "closing") ~> BothClosed

\* C13 witness: the connection closed after an X.224 handshake and the server
\* side has been told
C13_Witness ==
    /\ Ran("onDisconnection")
    /\ x224 = "connected"
    /\ tcp.state = "closed"
    /\ out.server = << ServerCall("disconnect", << >>) >>
    /\ serverDisconnected

\* C14: a Disconnect Provider Ultimatum is forwarded to the victim through the
\* server side and the session is torn down.
C14_UltimatumTearsDown ==
    Ran("onDisconnectProviderUltimatum") =>
        /\ out.server = << ServerCall("sendDisconnectProviderUltimatum", << out.arg >>) >>
        /\ Closing

NoCallOf(method) == \A i \in 1..Len(out.server) : out.server[i].method # method

\* C15: the server side hears onChannelJoinAccepted(userID, channelID) once, from
\* buildChannel only, and when it hears it channelObservers already holds an
\* observer for channelID; a refusal is passed on as onChannelJoinRefused and
\* builds nothing.
C15_AcceptedAfterChannelBuilt ==
    /\ [](Ran("buildChannel") =>
            /\ out.server = << ServerCall("onChannelJoinAccepted", out.arg) >>
            /\ out.arg[2] \in DOMAIN out.seen.channelObservers
            /\ out.arg[2] \in DOMAIN channelStacks)
    /\ []((out # None /\ out.handler # "buildChannel") => NoCallOf("onChannelJoinAccepted"))
    /\ [](Ran("onChannelJoinRefused") =>
            out.server = << ServerCall("onChannelJoinRefused", out.arg) >>)
    /\ [][out'.handler = "onChannelJoinRefused" =>
             UNCHANGED <<channelObservers, channelStacks, securityLayer, slowPathLayer>>]_vars

\* C15 witness: the device-redirection channel was built and the server told
C15_Witness ==
    /\ Ran("buildChannel")
    /\ out.arg = << 1, 1004 >>
    /\ DOMAIN channelObservers = { 1004 }
    /\ out.server[1].method = "onChannelJoinAccepted"
    /\ 1004 \in DOMAIN out.seen.channelObservers

IsIOChannel(channelID) == ChannelName(channelID) = << "I/O" >>

\* C16: buildChannel picks the stack by the channel's name in channelMap and
\* getChannelObserver(channelID) then returns the observer of that stack. The
\* I/O stack ends in the client's one slow-path layer, to which the build adds
\* an interception and a recording observer after those of earlier builds, and
\* the observer returned is the interception observer this build added.
C16_StackByChannelName ==
    /\ [](Ran("buildChannel") =>
            LET channelID == out.arg[2]
                name == ChannelName(channelID)
                stack == channelStacks[channelID]
                top == stack.layers[Len(stack.layers)]
                added == Len(stack.observers) - 1
            IN  /\ name = << "I/O" >> =>
                      /\ top = "SlowPathLayer"
                      /\ stack.layers[2] = securityLayer
                      /\ stack.observers = slowPathLayer.observers
                      /\ added >= 1
                      /\ stack.observers[added] = "MITMSlowPathObserver"
                      /\ stack.observers[added + 1] = "RecordingSlowPathObserver"
                      /\ getChannelObserver(channelID) = stack.observers[added]
                      /\ stack.fastPath = << "MITMFastPathObserver", "RecordingFastPathObserver" >>
                /\ name # << "I/O" >> =>
                      /\ Len(stack.observers) = 1
                      /\ getChannelObserver(channelID) = stack.observers[1]
                /\ name = << "cliprdr" >> =>
                      top = "ClipboardLayer" /\ stack.observers = << "ActiveClipboardStealer" >>
                /\ name = << "rdpdr" >> =>
                      top = "DeviceRedirectionLayer"
                      /\ stack.observers = << "PassiveFileStealerClient" >>
                /\ name \notin { << "I/O" >>, << "cliprdr" >>, << "rdpdr" >> } =>
                      top = "RawLayer" /\ stack.observers = << "MITMVirtualChannelObserver" >>)
    /\ [][IF out'.handler = "buildChannel" /\ IsIOChannel(out'.arg[2])
          THEN slowPathLayer'.observers =
                  slowPathLayer.observers
                     \o << "MITMSlowPathObserver", "RecordingSlowPathObserver" >>
          ELSE slowPathLayer' = slowPathLayer]_vars

\* C16 witness: the I/O channel was built a second time; the slow-path layer
\* holds the observers of both builds and the one returned is of the second
C16_Witness ==
    /\ Ran("buildChannel")
    /\ IsIOChannel(out.arg[2])
    /\ Len(slowPathLayer.observers) = 4
    /\ channelStacks[out.arg[2]].observers = slowPathLayer.observers
    /\ getChannelObserver(out.arg[2]) = slowPathLayer.observers[3]

\* C17: every MCS Connect Response is passed to the server side exactly once,
\* with the ServerData parsed from it when its result is zero, and with no
\* ServerData and nothing parsed when it is not.
C17_ConnectResponsePassedOnce ==
    Ran("onConnectResponse") =>
        /\ Len(out.server) = 1
        /\ out.server[1].method = "onConnectResponse"
        /\ IF out.arg.result = 0
           THEN /\ serverData = out.arg.serverData
                /\ out.server[1].args = << out.arg, out.arg.serverData >>
           ELSE /\ serverData = None
                /\ channelMap = EmptyDict
                /\ out.server[1].args = << out.arg, None >>

\* C18: after ServerData, channelMap maps the server's mcsChannelID to "I/O" and
\* the i-th server channel to the i-th channel definition of the client's data,
\* whatever the number of channels the server lists.
C18_ChannelMapFromServerData ==
    (Ran("onConnectResponse") /\ out.arg.result = 0) =>
        LET data == out.arg.serverData
        IN  /\ out.raised = "none"
            /\ data.mcsChannelID \in DOMAIN channelMap
            /\ channelMap[data.mcsChannelID] = "I/O"
            /\ \A i \in 1..Len(data.channels) :
                  /\ i <= Len(channelDefinitions)
                  /\ data.channels[i] \in DOMAIN channelMap
                  /\ channelMap[data.channels[i]] = channelDefinitions[i]

\* C19: each Connect Initial forwards exactly one ClientData, with
\* RNS_UD_CS_WANT_32BPP_SESSION cleared and everything else as received; the
\* channel definitions become those of the received network data, and stay as
\* they are when it carries none.
C19_ForwardedClientData ==
    /\ [](Ran("onConnectInitial") =>
            /\ Len(out.sent) = 1
            /\ out.sent[1].layer = "rdpConnect.sendPDU"
            /\ BitAnd(out.sent[1].pdu.earlyCapabilityFlags, RNS_UD_CS_WANT_32BPP_SESSION) = 0
            /\ AndNot(out.sent[1].pdu.earlyCapabilityFlags, RNS_UD_CS_WANT_32BPP_SESSION)
                  = AndNot(out.arg.earlyCapabilityFlags, RNS_UD_CS_WANT_32BPP_SESSION)
            /\ out.sent[1].pdu.networkData = out.arg.networkData)
    /\ [][(mcs = "idle" /\ mcs' = "initialSent") =>
             channelDefinitions' =
                IF out'.arg.networkData # None THEN out'.arg.networkData.channelDefinitions
                ELSE channelDefinitions]_vars

\* C19 witness: a ClientData with both flags went out with only the other one
C19_Witness ==
    /\ Ran("onConnectInitial")
    /\ out.arg.earlyCapabilityFlags =
          RNS_UD_CS_SUPPORT_ERRINFO_PDU + RNS_UD_CS_WANT_32BPP_SESSION
    /\ out.sent[1].pdu.earlyCapabilityFlags = RNS_UD_CS_SUPPORT_ERRINFO_PDU
    /\ channelDefinitions = << "cliprdr", "rdpsnd" >>

\* C20: useTLS starts false, becomes true exactly on a Connection Confirm with
\* tlsSelected and stays true; TLS runs on the TCP layer when that confirm is
\* passed to the server side; every channel's security layer is the TLS one iff
\* useTLS, otherwise a native one with the negotiated method and the shared crypter.
C20_OneKindOfSecurityLayer ==
    /\ ~useTLS
    /\ [][useTLS' = (useTLS \/ (x224 = "requested" /\ x224' = "connected"
                                /\ out'.arg.tlsSelected))]_vars
    /\ []((Ran("onConnectionConfirm") /\ out.arg.tlsSelected) =>
             (out.seen.tcp.tls /\ tcp.tls))
    /\ [](\A channelID \in DOMAIN channelStacks :
            LET layer == channelStacks[channelID].layers[2]
            IN  IF useTLS THEN layer.type = "TLSSecurityLayer"
                ELSE /\ layer.type = "SecurityLayer"
                     /\ layer.encryptionMethod = serverData.encryptionMethod
                     /\ layer.crypter = "self.crypter")

\* C20 witness: two channels built after TLS was selected, both over TLS
C20_Witness ==
    /\ useTLS
    /\ Cardinality(DOMAIN channelStacks) >= 2
    /\ \A channelID \in DOMAIN channelStacks :
          channelStacks[channelID].layers[2].type = "TLSSecurityLayer"

\* The I/O security layer exists, TLS is in use and no security header is expected
HeaderNotExpectedUnderTLS ==
    securityLayer # None /\ useTLS /\ ~securityLayer.securityHeaderExpected

\* What C21 says of the steps that are not a licensing notification: under TLS
\* an expected security header stays expected
HeaderExpectedUntilLicensing ==
    [][(securityLayer # None /\ useTLS /\ securityLayer.securityHeaderExpected
          /\ out'.handler # "onLicensingDataReceived") =>
             securityLayer'.securityHeaderExpected]_vars

\* What C21 says of a licensing notification: it is passed to the server side
\* once, clears securityHeaderExpected under TLS and changes nothing without TLS
LicensingForwardedOnce ==
    /\ [](Ran("onLicensingDataReceived") =>
            /\ out.server = << ServerCall("onLicensingDataReceived", << out.arg >>) >>
            /\ useTLS => ~securityLayer.securityHeaderExpected)
    /\ []((Ran("buildChannel") /\ IsIOChannel(out.arg[2]) /\ useTLS) =>
            securityLayer.securityHeaderExpected)
    /\ [][out'.handler = "onLicensingDataReceived" =>
             securityLayer' =
                [securityLayer EXCEPT
                   !.securityHeaderExpected = IF useTLS THEN FALSE ELSE @]]_vars

\* C21 as stated: licensing data is passed to the server side exactly once; under
\* TLS the I/O security layer expects a security header from the build of the I/O
\* channel until the first licensing data and never again afterwards; without
\* TLS licensing data leaves securityHeaderExpected alone.
C21_HeaderNeverExpectedAgain ==
    /\ LicensingForwardedOnce
    /\ HeaderExpectedUntilLicensing
    /\ [][HeaderNotExpectedUnderTLS => ~securityLayer'.securityHeaderExpected]_vars

\* C21 amended: as stated, but the header stays unexpected only until the I/O
\* channel is built again: each build of the I/O channel makes a new I/O security
\* layer that expects the header under TLS; nothing else changes the flag.
C21_LicensingResetsHeaderUnderTLS ==
    /\ LicensingForwardedOnce
    /\ HeaderExpectedUntilLicensing
    /\ [][HeaderNotExpectedUnderTLS =>
             (securityLayer'.securityHeaderExpected <=>
                 (out'.handler = "buildChannel" /\ IsIOChannel(out'.arg[2])))]_vars
    /\ [](securityLayer # None =>
            channelStacks[slowPathLayer.previous.channelID].layers[2] = securityLayer)

\* C21 witness: two channels named I/O were built under TLS and licensing data
\* arrived: the security layer of the stack built last, which is
\* self.securityLayer, no longer expects the header; that of the other stack does
C21_Witness ==
    /\ Ran("onLicensingDataReceived")
    /\ useTLS
    /\ securityLayer.type = "TLSSecurityLayer"
    /\ ~securityLayer.securityHeaderExpected
    /\ Len(slowPathLayer.observers) = 4
    /\ channelStacks[slowPathLayer.previous.channelID].layers[2] = securityLayer
    /\ \E channelID \in DOMAIN channelStacks \ { slowPathLayer.previous.channelID } :
          /\ IsIOChannel(channelID)
          /\ channelStacks[channelID].observers = slowPathLayer.observers
          /\ channelStacks[channelID].layers[2].securityHeaderExpected

\* C22: a player message goes to exactly one hook, the one of its type; the
\* seven types have seven different hooks; a type outside the table invokes no
\* hook and is reported once; a hook that is not overridden fails with
\* "not implemented".
C22_OneHookPerMessageType ==
    /\ Cardinality(DOMAIN handlers) = 7
    /\ \A a, b \in DOMAIN handlers : a # b => handlers[a] # handlers[b]
    /\ player.last # None =>
          IF player.last.header \in
                { "CONNECTION_CLOSE", "CLIENT_INFO", "SLOW_PATH_PDU", "FAST_PATH_INPUT",
                  "FAST_PATH_OUTPUT", "CLIPBOARD_DATA", "CLIENT_DATA" }
          THEN /\ Len(player.last.invoked) = 1
               /\ player.last.invoked[1] \in Hooks
               /\ player.last.unknown = 0
               /\ player.last.raised = "NotImplementedError"
                     <=> player.last.invoked[1] \notin player.overridden
          ELSE /\ player.last.invoked = << >>
               /\ player.last.unknown = 1

\* C22 witness: an output message reached onOutput, which the subclass overrides,
\* while it leaves onInput to the default
C22_Witness ==
    /\ player.last # None
    /\ player.last.header = "FAST_PATH_OUTPUT"
    /\ player.last.invoked = << "onOutput" >>
    /\ player.overridden = { "onOutput" }
    /\ player.last.raised = "none"

\* C23: a stealer's openedFiles and partial-file buffers change only while that
\* same stealer handles an I/O response; nothing the peer handles changes them.
C23_SingleWriter ==
    [][\A self \in Sides :
          (openedFiles'[self] # openedFiles[self] \/ finalFiles'[self] # finalFiles[self]) =>
              (Receives(self) /\ call'.pdu.cls = "DeviceIOResponsePDU")
      ]_vars

\* C23 witness: a stealer that had opened a file on a Create response has put
\* the data of a Read response into its partial-file buffer, and the peer, which
\* handled the two requests, has neither an opened file nor a buffer
C23_Witness ==
    /\ IsResponseCall(call)
    /\ \E self \in Sides :
          /\ call.self = self
          /\ openedFiles[self] # EmptyDict
          /\ finalFiles[self] # EmptyDict
          /\ \A other \in Sides \ { self } :
                openedFiles[other] = EmptyDict /\ finalFiles[other] = EmptyDict

\* C24: a response whose completionId is not in progress is reported as an error,
\* changes no table of either stealer, writes nothing to disk and is forwarded.
C24_UnknownCompletionIdChangesNothing ==
    [][\A self \in Sides :
          (/\ Receives(self)
           /\ call'.peer # NoPeer
           /\ call'.pdu.cls = "DeviceIOResponsePDU"
           /\ call'.pdu.completionId \notin DOMAIN completionIdInProgress[self]) =>
              /\ UNCHANGED <<completionIdInProgress, openedFiles, finalFiles, disk>>
              /\ call'.raised = "none"
              /\ call'.sent = << call'.pdu >>
              /\ call'.log = << "error: completion id not in progress" >>
      ]_vars

\* C24 witness: a stealer with a request in progress got a response for another
\* completionId and forwarded it
C24_Witness ==
    /\ IsResponseCall(call)
    /\ call.log = << "error: completion id not in progress" >>
    /\ call.sent = << call.pdu >>
    /\ completionIdInProgress[call.self] # EmptyDict
    /\ call.pdu.completionId \notin DOMAIN completionIdInProgress[call.self]

SecurityExchangeSent ==
    out # None /\ \E i \in 1..Len(out.sent) : out.sent[i].layer = "sendSecurityExchange"

\* C25: building the I/O channel sends one Security Exchange exactly when TLS was
\* not selected and the server's encryption method is not zero, and expects a
\* security header under TLS; a Security Exchange is never sent before ServerData
\* arrived and the client random exists; the fast-path layer is attached to the
\* segmentation layer exactly when the I/O channel has been built.
C25_SecurityExchangeOnlyNative ==
    /\ (Ran("buildChannel") /\ IsIOChannel(out.arg[2])) =>
          IF useTLS
          THEN out.sent = << >> /\ securityLayer.securityHeaderExpected
          ELSE IF serverData.encryptionMethod # 0
          THEN out.sent = << Sent("sendSecurityExchange", "encryptedClientRandom") >>
          ELSE out.sent = << >>
    /\ SecurityExchangeSent =>
          /\ Ran("buildChannel") /\ IsIOChannel(out.arg[2])
          /\ serverData # None
          /\ securitySettings.clientRandom
          /\ securitySettings.serverRandom
    /\ "FAST_PATH" \in segmentation <=>
          \E channelID \in DOMAIN channelStacks :
              channelStacks[channelID].layers[3] = "SlowPathLayer"

\* C25 witness: the I/O channel was built without TLS for a server that
\* encrypts, and the Security Exchange went out
C25_Witness ==
    /\ Ran("buildChannel")
    /\ IsIOChannel(out.arg[2])
    /\ ~useTLS
    /\ serverData.encryptionMethod = ENCRYPTION_METHOD_128BIT
    /\ SecurityExchangeSent
    /\ "FAST_PATH" \in segmentation

=============================================================================
